---- MODULE Spec2Model ----
(***************************************************************************)
(* The SSHFS mount bootstrap of multipass (mp::SshfsMount) driven through  *)
(* the mocked SSH channel of tests/test_sshfsmount.cpp.                    *)
(*                                                                         *)
(* The repository excerpt holds the tests only.  The mocked channel (the   *)
(* request_exec lambdas, the channel reader, the command tables, the       *)
(* expected log messages) is translated from tests/test_sshfsmount.cpp.    *)
(* The bootstrap sequence itself (sshfs_mount.cpp) is not part of the      *)
(* excerpt; it is modelled from the specification (sections 4.2, 4.3, 6),  *)
(* and where a test of the excerpt decides a behaviour the test wins.      *)
(*                                                                         *)
(* A second part holds the tests of the command-line client                *)
(* (tests/test_cli_client.cpp): the mocked daemon and its expectations are *)
(* translated from the tests, the client (mp::Client, not part of the      *)
(* excerpt) is any caller of the mocks.  A third part runs two mount       *)
(* operations concurrently, each on its own logical channel (section 5 of  *)
(* the specification).                                                     *)
(*                                                                         *)
(* Strings are TLA+ strings: Len, SubSeq and \o act on their characters.   *)
(***************************************************************************)
EXTENDS Integers, Sequences, FiniteSets, TLC

VARIABLES
    test,              \* the TEST_F (or the free channel) that drives this run
    target,            \* the target path handed to make_sshfsmount
    pc,                \* the bootstrap's stage
    outstanding,       \* a command was issued and its response is not read yet
    issued,            \* the commands given to ssh_channel_request_exec, in order
    output,            \* mock: the text the channel reader serves
    remaining,         \* mock: how much of output is still unread
    invoked,           \* mock: the flag that binds the reader to the exec mock
    next_expected_cmd, \* mock: index into the test's CommandVector (Len+1 = end)
    exit_code,         \* mock: exit_status_mock's current exit code
    invoked_fail,      \* mock: the test's "the command under test was run" flag
    add_failure,       \* mock: ADD_FAILURE() was raised (out-of-order command)
    sleep,             \* mock: the exit status of the command will not arrive in time
    sshfs_exec,        \* bootstrap: the helper invocation prefix
    fuse_version,      \* bootstrap: the parsed FuseVersion
    uid,               \* bootstrap: ResolvedIdentity.uid
    gid,               \* bootstrap: ResolvedIdentity.gid
    absolute,          \* bootstrap: the absolute target path
    anchor,            \* bootstrap: the AnchorDirectory
    responses,         \* the RemoteCommandResult read for each command, in order
    log,               \* the (level, category, message) triples logged
    result,            \* "running", "mounted" or the error raised
    client_message,    \* the remote's session-end signal was raised
    stop_requested,    \* the owning process asked the mount to stop
    stopped_ok,        \* the blocked caller was released without an error
    attempt,           \* the number of this run on the same remote
    running_test,      \* client: the body of the TEST_F that runs
    calls,             \* client: the calls the mocks took, with what they returned
    call_count,        \* gmock: how often each expectation of the test was called
    retired,           \* gmock: the expectations that are retired
    command,           \* client: which send_command of the test is running
    returned,          \* client: the return code and output of each command run
    cout_stream,       \* client: what the running command has printed to cout
    cerr_stream,       \* client: what the running command has printed to cerr
    aliases_db,        \* client: the aliases stored in the test's alias file
    verdict,           \* client: "running", "passed" or how the test failed
    mount,             \* which mount operation the variables above belong to
    suspended,         \* the state of each mount operation that is not running
    connection         \* the state of each logical channel of the connection

mockVars == <<output, remaining, invoked, next_expected_cmd, exit_code,
              invoked_fail, add_failure>>
bootVars == <<sshfs_exec, fuse_version, uid, gid, absolute, anchor>>
lifeVars == <<client_message, stop_requested, stopped_ok>>
sshfsVars == <<test, target, pc, outstanding, issued, responses, mockVars, sleep,
               bootVars, log, result, lifeVars, attempt>>
cliVars == <<running_test, calls, call_count, retired, command, returned, cout_stream, cerr_stream,
             aliases_db, verdict>>
concVars == <<mount, suspended, connection>>
vars == <<sshfsVars, cliVars, concVars>>

(***************************************************************************)
(* Bounds of the model.                                                    *)
(***************************************************************************)
\* The garbage values tried for the tests' uninitialized `remaining`.
MaxGarbage == 1

\* How many times the free channel's remote is run against, one run after another.
MaxAttempts == 2

\* How many calls of the mocks a test of the command-line client is followed for.
MaxCalls == 4

(***************************************************************************)
(* Strings.                                                                *)
(***************************************************************************)
\* std::string::find(needle) != npos
Contains(hay, needle) ==
    \E i \in 1..(Len(hay) - Len(needle) + 1) :
        SubSeq(hay, i, i + Len(needle) - 1) = needle

\* The first position of needle in hay, 0 when there is none.
IndexOf(hay, needle) ==
    LET hits == {i \in 1..(Len(hay) - Len(needle) + 1) :
                    SubSeq(hay, i, i + Len(needle) - 1) = needle}
    IN  IF hits = {} THEN 0 ELSE CHOOSE i \in hits : \A j \in hits : i <= j

StartsWith(s, prefix) ==
    Len(prefix) <= Len(s) /\ SubSeq(s, 1, Len(prefix)) = prefix

EndsWith(s, suffix) ==
    Len(suffix) <= Len(s) /\ SubSeq(s, Len(s) - Len(suffix) + 1, Len(s)) = suffix

DropPrefix(s, n) == SubSeq(s, n + 1, Len(s))

CharAt(s, i) == SubSeq(s, i, i)

Whitespace == {" ", "\n", "\t", "\r"}

RECURSIVE TrimEnd(_)
TrimEnd(s) ==
    IF Len(s) > 0 /\ CharAt(s, Len(s)) \in Whitespace
    THEN TrimEnd(SubSeq(s, 1, Len(s) - 1))
    ELSE s

RECURSIVE TrimStart(_)
TrimStart(s) ==
    IF Len(s) > 0 /\ CharAt(s, 1) \in Whitespace
    THEN TrimStart(DropPrefix(s, 1))
    ELSE s

Trim(s) == TrimStart(TrimEnd(s))

\* Removes one trailing newline, when there is one.
ChopNewline(s) == IF EndsWith(s, "\n") THEN SubSeq(s, 1, Len(s) - 1) ELSE s

\* The lines of a text, without their newlines.
RECURSIVE Lines(_)
Lines(s) ==
    IF s = "" THEN <<>>
    ELSE LET n == IndexOf(s, "\n")
         IN  IF n = 0 THEN <<s>>
             ELSE <<SubSeq(s, 1, n - 1)>> \o Lines(DropPrefix(s, n))

\* The pieces of s between the occurrences of the one-character separator.
RECURSIVE Split(_, _)
Split(s, sep) ==
    LET n == IndexOf(s, sep)
    IN  IF n = 0 THEN <<s>>
        ELSE <<SubSeq(s, 1, n - 1)>> \o Split(DropPrefix(s, n), sep)

Digits == <<"0", "1", "2", "3", "4", "5", "6", "7", "8", "9">>

IsDigit(c) == \E d \in 1..10 : Digits[d] = c

DigitValue(c) == (CHOOSE d \in 1..10 : Digits[d] = c) - 1

IsNumber(s) == Len(s) > 0 /\ \A i \in 1..Len(s) : IsDigit(CharAt(s, i))

RECURSIVE NumberValue(_)
NumberValue(s) ==
    IF s = "" THEN 0
    ELSE 10 * NumberValue(SubSeq(s, 1, Len(s) - 1)) + DigitValue(CharAt(s, Len(s)))

\* fmt::format("{}", n) of a non-negative integer.
RECURSIVE to_string(_)
to_string(n) ==
    IF n < 10 THEN Digits[n + 1]
    ELSE to_string(n \div 10) \o Digits[(n % 10) + 1]

(***************************************************************************)
(* tests/test_sshfsmount.cpp: the fixture's data.                          *)
(***************************************************************************)
SSH_OK == 0
SSH_ERROR == -1

default_source == "source"
default_target == "target"

anchor_cmd_home_ubuntu_target ==
    "sudo /bin/bash -c 'P=\"/home/ubuntu/target\"; while [ ! -d \"$P/\" ]; do P=${P%/*}; done; echo $P/'"

version_cmd_snap == "sudo env LD_LIBRARY_PATH=/foo/bar /baz/bin/sshfs -V"

\* default_cmds with a FUSE 2 answer to the version query.
default_cmds_fuse2 ==
    << <<"snap run multipass-sshfs.env", "LD_LIBRARY_PATH=/foo/bar\nSNAP=/baz\n">>,
       <<version_cmd_snap, "FUSE library version: 2.9.0\n">>,
       <<"id -u", "1000\n">>,
       <<"id -g", "1000\n">>,
       <<"pwd", "/home/ubuntu\n">>,
       <<"sudo env LD_LIBRARY_PATH=/foo/bar /baz/bin/sshfs -o slave -o transform_symlinks -o allow_other :\"source\" \"target\"",
         "don't care\n">> >>

\* default_cmds with no answer to the environment query.
default_cmds_without_env ==
    << <<version_cmd_snap, "FUSE library version: 3.0.0\n">>,
       <<"id -u", "1000\n">>,
       <<"id -g", "1000\n">>,
       <<"pwd", "/home/ubuntu\n">>,
       <<"sudo env LD_LIBRARY_PATH=/foo/bar /baz/bin/sshfs -o slave -o transform_symlinks -o allow_other :\"source\" \"target\"",
         "don't care\n">> >>

\* default_cmds with `id -u` answered as for root.
default_cmds_root_uid ==
    << <<"snap run multipass-sshfs.env", "LD_LIBRARY_PATH=/foo/bar\nSNAP=/baz\n">>,
       <<version_cmd_snap, "FUSE library version: 3.0.0\n">>,
       <<"id -u", "0\n">>,
       <<"id -g", "1000\n">>,
       <<"pwd", "/home/ubuntu\n">>,
       <<"sudo env LD_LIBRARY_PATH=/foo/bar /baz/bin/sshfs -o slave -o transform_symlinks -o allow_other :\"source\" \"target\"",
         "don't care\n">> >>

\* SshfsMount::default_cmds, as (command, answer) pairs.
default_cmds ==
    << <<"snap run multipass-sshfs.env", "LD_LIBRARY_PATH=/foo/bar\nSNAP=/baz\n">>,
       <<version_cmd_snap, "FUSE library version: 3.0.0\n">>,
       <<"id -u", "1000\n">>,
       <<"id -g", "1000\n">>,
       <<"pwd", "/home/ubuntu\n">>,
       <<"sudo env LD_LIBRARY_PATH=/foo/bar /baz/bin/sshfs -o slave -o transform_symlinks -o allow_other :\"source\" \"target\"",
         "don't care\n">> >>

\* The tests that run make_sshfsmount through make_exec_to_check_commands.
CheckTests == {"executes_commands", "works_with_absolute_paths",
               "fuse_version_less_than_3_nonempty",
               "blank_fuse_version_logs_error", "invalid_fuse_version_throws"}

\* The tests that run test_failed_invocation(fail_cmd).
FailTests == {"throws_when_unable_to_make_target_dir", "throws_when_unable_to_chown",
              "throws_when_unable_to_obtain_user_id",
              "throws_when_unable_to_obtain_group_id",
              "throws_when_unable_to_change_dir",
              "throws_when_unable_to_get_current_dir"}

\* fail_cmd with throws_when_unable_to_chown naming another command.
fail_cmd_typo(t) ==
    CASE t = "throws_when_unable_to_make_target_dir" -> "mkdir"
      [] t = "throws_when_unable_to_chown" -> "chmod"
      [] t = "throws_when_unable_to_obtain_user_id" -> "id -u"
      [] t = "throws_when_unable_to_obtain_group_id" -> "id -g"
      [] t = "throws_when_unable_to_change_dir" -> "cd"
      [] t = "throws_when_unable_to_get_current_dir" -> "pwd"
      [] OTHER -> ""

\* The argument each test passes to test_failed_invocation.
fail_cmd(t) ==
    CASE t = "throws_when_unable_to_make_target_dir" -> "mkdir"
      [] t = "throws_when_unable_to_chown" -> "chown"
      [] t = "throws_when_unable_to_obtain_user_id" -> "id -u"
      [] t = "throws_when_unable_to_obtain_group_id" -> "id -g"
      [] t = "throws_when_unable_to_change_dir" -> "cd"
      [] t = "throws_when_unable_to_get_current_dir" -> "pwd"
      [] OTHER -> ""

\* The command list without the fallback lookup.
sshfs_does_not_exist_cmds_env_only == <<"sudo multipass-sshfs.env">>

\* The command list of throws_when_sshfs_does_not_exist.
sshfs_does_not_exist_cmds == <<"sudo multipass-sshfs.env", "which sshfs">>

\* The CommandVector of test_failed_invocation.
failed_invocation_commands ==
    << <<"snap run multipass-sshfs.env", "LD_LIBRARY_PATH=/foo/bar\nSNAP=/baz\n">>,
       <<version_cmd_snap, "FUSE library version: 3.0.0\n">>,
       <<"pwd", "/home/ubuntu\n">>,
       <<anchor_cmd_home_ubuntu_target, "/home/ubuntu/\n">> >>

\* executes_commands_list with chown expected before mkdir.
executes_commands_list_swapped ==
    << <<anchor_cmd_home_ubuntu_target, "/home/ubuntu/\n">>,
       <<"sudo /bin/bash -c 'cd \"/home/ubuntu/\" && chown -R 1000:1000 target'", "\n">>,
       <<"sudo /bin/bash -c 'cd \"/home/ubuntu/\" && mkdir -p \"target\"'", "\n">> >>

executes_commands_list ==
    << <<anchor_cmd_home_ubuntu_target, "/home/ubuntu/\n">>,
       <<"sudo /bin/bash -c 'cd \"/home/ubuntu/\" && mkdir -p \"target\"'", "\n">>,
       <<"sudo /bin/bash -c 'cd \"/home/ubuntu/\" && chown -R 1000:1000 target'", "\n">> >>

fuse_version_less_than_3_list ==
    << <<version_cmd_snap, "FUSE library version: 2.9.0\n">>,
       <<anchor_cmd_home_ubuntu_target, "/home/ubuntu/\n">>,
       <<"sudo env LD_LIBRARY_PATH=/foo/bar /baz/bin/sshfs -o slave -o transform_symlinks -o allow_other -o nonempty :\"source\" \"target\"",
         "don't care\n">> >>

\* blank_fuse_version_list answering the version query with a version.
blank_fuse_version_list_v3 ==
    << <<version_cmd_snap, "FUSE library version: 3.0.0\n">>,
       <<anchor_cmd_home_ubuntu_target, "/home/ubuntu\n">> >>

blank_fuse_version_list ==
    << <<version_cmd_snap, "FUSE library version:\n">>,
       <<anchor_cmd_home_ubuntu_target, "/home/ubuntu\n">> >>

\* invalid_fuse_version_list answering the version query with a numeric version.
invalid_fuse_version_list_numeric ==
    << <<version_cmd_snap, "FUSE library version: 2.9.0\n">>,
       <<anchor_cmd_home_ubuntu_target, "/home/ubuntu/\n">> >>

invalid_fuse_version_list ==
    << <<version_cmd_snap, "FUSE library version: fu.man.chu\n">>,
       <<anchor_cmd_home_ubuntu_target, "/home/ubuntu/\n">> >>

works_with_absolute_paths_list ==
    << <<anchor_cmd_home_ubuntu_target, "/home/ubuntu/\n">> >>

\* The CommandVector a test hands to its exec mock.
commands(t) ==
    CASE t = "executes_commands" -> executes_commands_list
      [] t = "works_with_absolute_paths" -> works_with_absolute_paths_list
      [] t = "fuse_version_less_than_3_nonempty" -> fuse_version_less_than_3_list
      [] t = "blank_fuse_version_logs_error" -> blank_fuse_version_list
      [] t = "invalid_fuse_version_throws" -> invalid_fuse_version_list
      [] t \in FailTests -> failed_invocation_commands
      [] OTHER -> <<>>

\* works_with_absolute_paths handing over its target without the leading slash.
test_target_without_leading_slash(t) ==
    IF t = "works_with_absolute_paths" THEN "home/ubuntu/target" ELSE default_target

\* The target a test hands to make_sshfsmount.
test_target(t) ==
    IF t = "works_with_absolute_paths" THEN "/home/ubuntu/target" ELSE default_target

\* The messages blank_fuse_version_logs_error expects of the logger.
log_category == "sshfs mount"
blank_version_warning == <<"warning", log_category, "Unable to parse the FUSE library version">>
blank_version_debug ==
    <<"debug", log_category, "Unable to parse the FUSE library version: FUSE library version:">>

(***************************************************************************)
(* tests/test_sshfsmount.cpp: the mocked channel.                          *)
(***************************************************************************)
\* std::find_if(first, commands.end(), cmd == it.first): Len + 1 is end().
find_if(cmds, first, cmd) ==
    LET hits == {i \in first..Len(cmds) : cmds[i][1] = cmd}
    IN  IF hits = {} THEN Len(cmds) + 1
        ELSE CHOOSE i \in hits : \A j \in hits : i <= j

\* default_cmds.find(cmd): the index of the entry, Len + 1 for end().
default_cmds_find(cmd) == find_if(default_cmds, 1, cmd)

\* The exec mock of test_command_execution: answers the commands of the test's
\* list in order, flags a listed command that comes out of order, and falls back
\* to default_cmds.
make_exec_to_check_commands(cmd) ==
    LET cmds == commands(test)
        end == Len(cmds) + 1
        found_cmd == find_if(cmds, next_expected_cmd, cmd)
        it == default_cmds_find(cmd)
    IN  /\ UNCHANGED <<exit_code, invoked_fail>>
        /\ IF next_expected_cmd # end /\ found_cmd = next_expected_cmd
           THEN /\ invoked' = TRUE
                /\ output' = cmds[next_expected_cmd][2]
                /\ remaining' = Len(cmds[next_expected_cmd][2])
                /\ next_expected_cmd' = next_expected_cmd + 1
                /\ UNCHANGED add_failure
           ELSE IF next_expected_cmd # end /\ found_cmd # end
           THEN /\ invoked' = FALSE
                /\ output' = cmds[found_cmd][2]
                /\ remaining' = Len(cmds[found_cmd][2])
                /\ add_failure' = TRUE
                /\ UNCHANGED next_expected_cmd
           ELSE IF it # Len(default_cmds) + 1
           THEN /\ invoked' = TRUE
                /\ output' = default_cmds[it][2]
                /\ remaining' = Len(default_cmds[it][2])
                /\ UNCHANGED <<next_expected_cmd, add_failure>>
           ELSE /\ invoked' = FALSE
                /\ UNCHANGED <<output, remaining, next_expected_cmd, add_failure>>

\* cmd == fail_cmd instead of cmd.find(fail_cmd).
is_fail_cmd_exact(cmd) == cmd = fail_cmd(test)

\* cmd.find(fail_cmd) != std::string::npos
is_fail_cmd(cmd) == Contains(cmd, fail_cmd(test))

\* The failing branch leaving the exit code alone.
fail_exit_code_ok == SSH_OK

\* exit_status_mock.return_exit_code(SSH_ERROR)
fail_exit_code == SSH_ERROR

\* The exec mock of test_failed_invocation: a command containing fail_cmd gets
\* the exit code SSH_ERROR, the others are answered from the list or default_cmds.
make_exec_that_executes_and_fails(cmd) ==
    LET cmds == commands(test)
        end == Len(cmds) + 1
        it == default_cmds_find(cmd)
    IN  /\ UNCHANGED add_failure
        /\ IF is_fail_cmd(cmd)
           THEN /\ invoked_fail' = TRUE
                /\ exit_code' = fail_exit_code
                /\ UNCHANGED <<output, remaining, invoked, next_expected_cmd>>
           ELSE IF next_expected_cmd # end /\ cmd = cmds[next_expected_cmd][1]
           THEN /\ output' = cmds[next_expected_cmd][2]
                /\ remaining' = Len(cmds[next_expected_cmd][2])
                /\ invoked' = TRUE
                /\ next_expected_cmd' = next_expected_cmd + 1
                /\ UNCHANGED <<invoked_fail, exit_code>>
           ELSE IF it # Len(default_cmds) + 1
           THEN /\ output' = default_cmds[it][2]
                /\ remaining' = Len(default_cmds[it][2])
                /\ invoked' = TRUE
                /\ UNCHANGED <<invoked_fail, exit_code, next_expected_cmd>>
           ELSE UNCHANGED <<output, remaining, invoked, next_expected_cmd,
                            invoked_fail, exit_code>>

\* The exec mock of throws_when_sshfs_does_not_exist: a command containing one of
\* expected_cmds gets the exit code SSH_ERROR.  Its `invoked` flag is the test's
\* own (invoked_fail here); the channel reader stays the fixture's default.
make_exec_that_fails_for(expected_cmds, cmd) ==
    /\ UNCHANGED <<output, remaining, invoked, next_expected_cmd, add_failure>>
    /\ IF \E i \in 1..Len(expected_cmds) : Contains(cmd, expected_cmds[i])
       THEN invoked_fail' = TRUE /\ exit_code' = SSH_ERROR
       ELSE UNCHANGED <<invoked_fail, exit_code>>

\* An answer of digits followed by a blank and the newline.
bad_id_text_trailing_blank == "1000 \n"

\* The lambdas answering the query under test with an integer.
bad_id_text_numeric == "1000\n"

\* The answer the lambdas give to the query under test.
bad_id_text == "ubuntu\n"

\* The lambda of the two id tests, answering the version query as
\* invalid_fuse_version_throws does.
id_not_an_integer_exec_malformed_version(bad, cmd) ==
    LET u == Contains(cmd, "id -u")
        g == Contains(cmd, "id -g")
        v == EndsWith(cmd, " -V")
        out == IF v THEN "FUSE library version: fu.man.chu\n"
               ELSE IF u \/ g
               THEN (IF Contains(cmd, bad) THEN bad_id_text ELSE "1000\n")
               ELSE IF Contains(cmd, "pwd") THEN "/home/ubuntu\n"
               ELSE IF Contains(cmd, "P=") THEN "/home/ubuntu/\n"
               ELSE output
    IN  /\ UNCHANGED <<next_expected_cmd, exit_code, add_failure>>
        /\ output' = out
        /\ remaining' = Len(out)
        /\ invoked_fail' = (invoked_fail \/ Contains(cmd, bad))
        /\ invoked' = TRUE

\* The request_exec lambda of throws_when_uid_is_not_an_integer (bad = "id -u",
\* good = "id -g") and of throws_when_gid_is_not_an_integer (bad = "id -g",
\* good = "id -u").  The text "ubuntu\n" is served for the bad query, whose flag
\* is the test's uid_invoked/gid_invoked (invoked_fail here); the good query,
\* pwd and the anchor command set cmd_invoked (invoked here).
\* In the source the "id -u" test is an `if` of its own and the others are one
\* if/else-if chain.
id_not_an_integer_exec(bad, cmd) ==
    LET u == Contains(cmd, "id -u")
        g == Contains(cmd, "id -g")
        p == ~g /\ Contains(cmd, "pwd")
        a == ~g /\ ~p /\ Contains(cmd, "P=")
        \* the text and flags after the first `if`
        out1 == IF u THEN (IF bad = "id -u" THEN bad_id_text ELSE "1000\n") ELSE output
        \* ... and after the chain
        out2 == IF g THEN (IF bad = "id -g" THEN bad_id_text ELSE "1000\n")
                ELSE IF p THEN "/home/ubuntu\n"
                ELSE IF a THEN "/home/ubuntu/\n"
                ELSE out1
    IN  /\ UNCHANGED <<next_expected_cmd, exit_code, add_failure>>
        /\ output' = out2
        /\ remaining' = IF u \/ g \/ p \/ a THEN Len(out2) ELSE remaining
        /\ invoked_fail' = (invoked_fail \/ (u /\ bad = "id -u") \/ (g /\ bad = "id -g"))
        /\ invoked' = (invoked \/ (u /\ bad # "id -u") \/ (g /\ bad # "id -g") \/ p \/ a)

\* The request_exec lambda of unblocks_when_sftpserver_exits: one if/else-if
\* chain that answers the id queries, pwd and the anchor command.
unblocks_request_exec(cmd) ==
    LET i == Contains(cmd, "id -")
        p == ~i /\ Contains(cmd, "pwd")
        a == ~i /\ ~p /\ Contains(cmd, "P=")
        out == IF i THEN "1000\n"
               ELSE IF p THEN "/home/ubuntu\n"
               ELSE IF a THEN "/home/ubuntu/\n"
               ELSE output
    IN  /\ UNCHANGED <<next_expected_cmd, exit_code, invoked_fail, add_failure>>
        /\ output' = out
        /\ remaining' = IF i \/ p \/ a THEN Len(out) ELSE remaining
        /\ invoked' = (invoked \/ i \/ p \/ a)

\* The tests that run mp::utils::install_sshfs_for("foo", session).
InstallTests == {"throws_install_sshfs_which_snap_fails",
                 "throws_install_sshfs_no_snap_dir_fails",
                 "throws_install_sshfs_snap_install_fails",
                 "install_sshfs_no_failures_does_not_throw",
                 "install_sshfs_timeout_logs_info"}

\* The instance name the tests hand to install_sshfs_for.
install_name == "foo"

\* Every failing install test failing the install command.
install_fail_cmds_install_only(t) == <<"sudo snap install multipass-sshfs">>

\* The snap_install test failing the first probe instead.
install_fail_cmds_probes_only(t) ==
    CASE t = "throws_install_sshfs_which_snap_fails" -> <<"which snap">>
      [] t = "throws_install_sshfs_no_snap_dir_fails" -> <<"[ -e /snap ]">>
      [] t = "throws_install_sshfs_snap_install_fails" -> <<"which snap">>
      [] OTHER -> <<>>

\* The list of commands an install test hands to make_exec_that_fails_for.
install_fail_cmds(t) ==
    CASE t = "throws_install_sshfs_which_snap_fails" -> <<"which snap">>
      [] t = "throws_install_sshfs_no_snap_dir_fails" -> <<"[ -e /snap ]">>
      [] t = "throws_install_sshfs_snap_install_fails" ->
             <<"sudo snap install multipass-sshfs">>
      [] OTHER -> <<>>

\* Every failing install test expecting the helper-missing error.
expected_exception_all_missing(t) ==
    CASE t \in {"throws_install_sshfs_which_snap_fails",
                "throws_install_sshfs_no_snap_dir_fails",
                "throws_install_sshfs_snap_install_fails"} -> "sshfs_missing"
      [] OTHER -> "none"

\* The exception type an install test expects of install_sshfs_for:
\* EXPECT_THROW(..., std::runtime_error), EXPECT_THROW(..., mp::SSHFSMissingError),
\* EXPECT_NO_THROW and, in the timeout test, the bare call.
expected_exception(t) ==
    CASE t \in {"throws_install_sshfs_which_snap_fails",
                "throws_install_sshfs_no_snap_dir_fails"} -> "runtime_error"
      [] t = "throws_install_sshfs_snap_install_fails" -> "sshfs_missing"
      [] OTHER -> "none"

\* The message install_sshfs_timeout_logs_info expects of the logger, once.
install_timeout_message(name) ==
    <<"info", "utils", "Timeout while installing 'sshfs' in '" \o name \o "'">>

\* The lambda never setting its sleep flag.
install_timeout_request_exec_awake(cmd) ==
    UNCHANGED <<mockVars, sleep>>

\* The request_exec lambda of install_sshfs_timeout_logs_info: the install
\* command sets the flag that makes event_dopoll sleep past the timeout.
install_timeout_request_exec(cmd) ==
    /\ sleep' = (sleep \/ cmd = "sudo snap install multipass-sshfs")
    /\ UNCHANGED mockVars

\* event_dopoll of install_sshfs_timeout_logs_info: with the flag set the poll
\* sleeps for timeout + 1 ms and hands over no exit status; else the exit
\* status callback is called.  The other tests keep the fixture's poll, which
\* hands over exit_status_mock's code.
exit_status_arrives == ~sleep

\* The installation runs of the free channel: any exit status, and for the
\* install command also none within the timeout.
install_channel_execute(stage) ==
    /\ exit_code' \in {SSH_OK, SSH_ERROR}
    /\ sleep' \in IF stage = "snap_install" THEN BOOLEAN ELSE {FALSE}
    /\ UNCHANGED <<output, remaining, invoked, next_expected_cmd, invoked_fail,
                   add_failure>>

\* ssh_channel_request_exec as the install test of this run replaced it;
\* install_sshfs_no_failures_does_not_throw keeps the fixture's.
install_request_exec(cmd) ==
    IF test = "install_sshfs_timeout_logs_info" THEN install_timeout_request_exec(cmd)
    ELSE IF test \in InstallTests
    THEN make_exec_that_fails_for(install_fail_cmds(test), cmd) /\ UNCHANGED sleep
    ELSE install_channel_execute(pc)

\* make_channel_read_return, read to the end: nothing while the prerequisite flag
\* is unset, else the unread tail of output.  throws_when_sshfs_does_not_exist
\* keeps the fixture's channel_read.returnValue(0).
channel_read ==
    IF test = "throws_when_sshfs_does_not_exist" \/ ~invoked THEN ""
    ELSE SubSeq(output, Len(output) - remaining + 1, Len(output))

\* What is left unread once the response was read to the end.
channel_read_remaining ==
    IF test = "throws_when_sshfs_does_not_exist" \/ ~invoked THEN remaining ELSE 0

(***************************************************************************)
(* The Remote Command Channel without a test behind it (specification 4.1):*)
(* any exit status, and a text from a small set per stage.                 *)
(***************************************************************************)
ChannelOutputs(stage) ==
    CASE stage = "env" -> {"LD_LIBRARY_PATH=/foo/bar\nSNAP=/baz\n", "SNAP=/baz\n", ""}
      [] stage = "which" -> {"/usr/bin/sshfs\n"}
      [] stage = "version" -> {"FUSE library version: 3.0.0\n",
                               "FUSE library version: 2.9.0\n",
                               "FUSE library version:\n",
                               "FUSE library version: fu.man.chu\n",
                               "SSHFS version 2.8\n"}
      [] stage = "uid" -> {"1000\n", "0\n", "1000", "1000 \n", "ubuntu\n", "-7\n", ""}
      [] stage = "gid" -> {"1000\n", "0\n", "ubuntu\n", "-7\n", ""}
      [] stage = "pwd" -> {"/home/ubuntu\n"}
      [] stage = "anchor" -> {"/home/ubuntu/\n", "/home/ubuntu\n", "/\n"}
      [] OTHER -> {"\n"}

ChannelResponses(stage) ==
    {[exit_status |-> SSH_OK, output |-> o] : o \in ChannelOutputs(stage)}
        \cup {[exit_status |-> SSH_ERROR, output |-> ""]}

\* execute(command) -> RemoteCommandResult
channel_execute(stage) ==
    /\ \E r \in ChannelResponses(stage) :
          /\ output' = r.output
          /\ remaining' = Len(r.output)
          /\ exit_code' = r.exit_status
    /\ invoked' = TRUE
    /\ UNCHANGED <<next_expected_cmd, invoked_fail, add_failure>>

(***************************************************************************)
(* Output parsers (specification 4.3).                                     *)
(***************************************************************************)
\* KEY=VALUE line parser: each non-blank line is split on its first `=`; the
\* result maps the keys to their values, the last line of a key winning.
parse_env(text) ==
    LET ls == Lines(text)
        ok == {i \in 1..Len(ls) : ls[i] # "" /\ IndexOf(ls[i], "=") > 0}
        key(i) == SubSeq(ls[i], 1, IndexOf(ls[i], "=") - 1)
        value(i) == DropPrefix(ls[i], IndexOf(ls[i], "="))
        last(k) == CHOOSE i \in ok : key(i) = k /\ \A j \in ok : key(j) = k => j <= i
    IN  [k \in {key(i) : i \in ok} |-> value(last(k))]

version_token == "version:"

\* Version parser: the first line holding "version:", the rest of that line
\* trimmed; nothing left is the blank version; else up to three numeric
\* components separated by dots, anything else being malformed.
parse_version(text) ==
    LET ls == Lines(text)
        hits == {i \in 1..Len(ls) : Contains(ls[i], version_token)}
    IN  IF hits = {} THEN [kind |-> "absent", line |-> ""]
        ELSE LET line == ls[CHOOSE i \in hits : \A j \in hits : i <= j]
                 rest == Trim(DropPrefix(line, IndexOf(line, version_token)
                                                  + Len(version_token) - 1))
                 parts == Split(rest, ".")
             IN  IF rest = "" THEN [kind |-> "blank", line |-> line]
                 ELSE IF Len(parts) <= 3 /\ \A i \in 1..Len(parts) : IsNumber(parts[i])
                 THEN [kind |-> "version", line |-> line,
                       major |-> NumberValue(parts[1]),
                       minor |-> IF Len(parts) >= 2 THEN NumberValue(parts[2]) ELSE 0,
                       patch |-> IF Len(parts) >= 3 THEN NumberValue(parts[3]) ELSE 0]
                 ELSE [kind |-> "malformed", line |-> line]

\* Integer parser: trailing whitespace trimmed, then nothing but decimal digits.
\* -1 stands for the invalid-argument failure.
parse_id(text) ==
    LET s == TrimEnd(text)
    IN  IF IsNumber(s) THEN NumberValue(s) ELSE -1

\* Path-anchor parser: the trailing newline trimmed, a trailing slash guaranteed.
parse_anchor(text) ==
    LET s == ChopNewline(text)
    IN  IF EndsWith(s, "/") THEN s ELSE s \o "/"

(***************************************************************************)
(* The Mount Bootstrapper (specification 4.2 and 6).                       *)
(***************************************************************************)
\* The helper installation flow (specification 6), in order.
InstallStages == <<"which_snap", "snap_dir", "snap_install">>

InstallStageSet == {InstallStages[i] : i \in 1..Len(InstallStages)}

snap_install_cmd == "sudo snap install multipass-sshfs"

Stages == <<"env", "which", "version", "uid", "gid", "pwd", "anchor",
            "mkdir", "chown", "mount">>

StageSet == {Stages[i] : i \in 1..Len(Stages)}

is_absolute(path) == StartsWith(path, "/")

\* The helper invocation found by the environment query.
snap_sshfs_exec(env) ==
    "env LD_LIBRARY_PATH=" \o env["LD_LIBRARY_PATH"] \o " " \o env["SNAP"] \o "/bin/sshfs"

\* Only a parsed major below 3 counts as below 3.
below_3_parsed_only(v) == v.kind = "version" /\ v.major < 3

\* The effective FUSE version is below 3: a parsed major below 3, or the soft
\* "unparseable" outcome, which assumes pre-3.x behaviour.
below_3(v) ==
    \/ v.kind \in {"blank", "absent"}
    \/ v.kind = "version" /\ v.major < 3

\* The part of the absolute target below the anchor directory.
relative_target(abs, anch) ==
    IF StartsWith(abs, anch) THEN DropPrefix(abs, Len(anch)) ELSE abs

anchor_cmd(abs) ==
    "sudo /bin/bash -c 'P=\"" \o abs
        \o "\"; while [ ! -d \"$P/\" ]; do P=${P%/*}; done; echo $P/'"

mkdir_cmd(anch, rel) ==
    "sudo /bin/bash -c 'cd \"" \o anch \o "\" && mkdir -p \"" \o rel \o "\"'"

chown_cmd(anch, rel, u, g) ==
    "sudo /bin/bash -c 'cd \"" \o anch \o "\" && chown -R "
        \o to_string(u) \o ":" \o to_string(g) \o " " \o rel \o "'"

mount_cmd(exec, v, source, tgt) ==
    "sudo " \o exec \o " -o slave -o transform_symlinks -o allow_other"
        \o (IF below_3(v) THEN " -o nonempty" ELSE "")
        \o " :\"" \o source \o "\" \"" \o tgt \o "\""

\* The remote command string of a stage.
stage_cmd(stage) ==
    CASE stage = "env" -> "snap run multipass-sshfs.env"
      [] stage = "which" -> "which sshfs"
      [] stage = "version" -> "sudo " \o sshfs_exec \o " -V"
      [] stage = "uid" -> "id -u"
      [] stage = "gid" -> "id -g"
      [] stage = "pwd" -> "pwd"
      [] stage = "anchor" -> anchor_cmd(absolute)
      [] stage = "mkdir" -> mkdir_cmd(anchor, relative_target(absolute, anchor))
      [] stage = "chown" -> chown_cmd(anchor, relative_target(absolute, anchor), uid, gid)
      [] stage = "mount" -> mount_cmd(sshfs_exec, fuse_version, default_source, target)
      [] stage = "which_snap" -> "which snap"
      [] stage = "snap_dir" -> "[ -e /snap ]"
      [] stage = "snap_install" -> snap_install_cmd

Running == [kind |-> "running", what |-> ""]
Mounted == [kind |-> "mounted", what |-> ""]
Installed == [kind |-> "installed", what |-> ""]
TimedOut == [kind |-> "timed_out", what |-> ""]
Error(kind, what) == [kind |-> kind, what |-> what]

(***************************************************************************)
(* The command-line client (mp::Client) as the fixture `Client` of         *)
(* tests/test_cli_client.cpp runs it against the mocked daemon             *)
(* (StrictMock<MockDaemonRpc>) and the mocked settings.                    *)
(*                                                                         *)
(* The client's code is not part of the excerpt and the specification      *)
(* leaves it out of scope, so nothing is assumed about it: the client is   *)
(* any caller of the mocks.  The expectations, their matchers, their       *)
(* cardinalities and sequences, the commands and the expected return codes *)
(* are translated from the tests; a run of a test is accepted when no      *)
(* expectation was violated, none is left unsatisfied at TearDown, and     *)
(* every send_command returned what the test expects.                      *)
(***************************************************************************)

\* Client::petenv_name.
petenv_name == "the-petenv"

\* mp::home_automount_dir, as the tests' skip message quotes it.
home_automount_dir == "Home"

\* The path of the tests' QTemporaryDir fake_home.
fake_home == "/tmp/fake_home"

\* The message the tests look for in cout when the mounts feature is off.
skip_mount_message == "Skipping 'Home' mount due to disabled mounts feature\n"

\* grpc::Status{code, "msg"}; absent and deleted are the instances of the
\* StartError details, empty for every other status.
grpc_Status(code) == [code |-> code, absent |-> {}, deleted |-> {}]

\* grpc::Status{}, which a mocked method without an action returns as well.
ok == grpc_Status("OK")
notfound == grpc_Status("NOT_FOUND")
aborted == grpc_Status("ABORTED")
failed_precond == grpc_Status("FAILED_PRECONDITION")
invalid_argument == grpc_Status("INVALID_ARGUMENT")

\* aborted_start_status(absent_instances, deleted_instances).
aborted_start_status(absent_instances, deleted_instances) ==
    [code |-> "ABORTED", absent |-> absent_instances, deleted |-> deleted_instances]

\* What mock_settings.get(mounts_key) gives: Return("true"), Return("false")
\* or Throw(RemoteHandlerException).
setting(value) == [code |-> value, absent |-> {}, deleted |-> {}]

\* Throw(std::runtime_error(what)).
Throw(what) == [code |-> "runtime_error", absent |-> {}, deleted |-> {}, what |-> what]

\* The action info_function, which answers by the request it is given.
info_function == [code |-> "info_function", absent |-> {}, deleted |-> {}]

\* What an action returns for a request.  info_function: grpc::Status{} when
\* the first instance name of the request is "primary", else
\* grpc::Status{INVALID_ARGUMENT, "msg"}; every other action returns its value.
Invoke(action, request) ==
    IF request.rpc = "info" /\ action = info_function
    THEN IF request.args[1] = "primary" THEN ok ELSE invalid_argument
    ELSE action

(***************************************************************************)
(* Requests are [rpc, args]: args are the instance names of the request    *)
(* in order (ssh_info, start, stop, suspend, restart), the instance name   *)
(* (launch), or the source path followed by the instance and the path of   *)
(* each target (mount).                                                    *)
(***************************************************************************)
\* mp::timeout_exit_code, the code the client exits with on a timeout.
timeout_exit_code == "timeout_exit_code"

\* TimeoutSuite::request_sleeper answering at once.
request_sleeper_at_once == [code |-> "OK", absent |-> {}, deleted |-> {}, seconds |-> 0]

\* TimeoutSuite::request_sleeper: the reply, grpc::Status::OK, after two seconds.
request_sleeper == [code |-> "OK", absent |-> {}, deleted |-> {}, seconds |-> 2]

\* The handler pointer unregistersRemoteSettingsHandler has register_handler
\* return, and the null pointer.
handler == "0x123123"
nullptr == "nullptr"

\* The matcher `_`.
AnyRequest == [kind |-> "any", names |-> <<>>, size |-> 0]

\* make_ssh_info_instance_matcher: instance_name is ElementsAre(StrEq(name)).
make_ssh_info_instance_matcher(instance_name) ==
    [kind |-> "elements", names |-> <<instance_name>>, size |-> 1]

\* make_launch_instance_matcher: instance_name is StrEq(name).
make_launch_instance_matcher(instance_name) ==
    [kind |-> "elements", names |-> <<instance_name>>, size |-> 1]

\* make_instances_sequence_matcher, and make_instances_matcher with
\* ElementsAre(...) or IsEmpty().
make_instances_sequence_matcher(seq) ==
    [kind |-> "elements", names |-> seq, size |-> Len(seq)]

\* make_instance_in_repeated_field_matcher<Request, size>(name):
\* Contains(StrEq(name)) and SizeIs(size).
make_instance_in_repeated_field_matcher(instance_name, size) ==
    [kind |-> "contains", names |-> <<instance_name>>, size |-> size]

\* A matcher that takes any mount request.
make_automount_matcher_any_mount == AnyRequest

\* make_automount_matcher(fake_home): the source is the home, and the targets
\* are one entry, the pet instance at the home automount directory.
make_automount_matcher ==
    [kind |-> "automount", names |-> <<fake_home, petenv_name, home_automount_dir>>,
     size |-> 1]

\* Property(&mp::RemoteSettingsHandler::get_key_prefix, Eq(prefix)) and
\* Property(&mp::RemoteSettingsHandler::get_verbosity, Eq(n)).
Property(getter, value) == [kind |-> getter, value |-> value]

\* match_uptr_to_remote_settings_handler(matcher): the handler handed over is a
\* mp::RemoteSettingsHandler, not null, and matcher accepts it.  A
\* register_handler request carries the handler's type, key prefix and verbosity.
match_uptr_to_remote_settings_handler(matcher) ==
    [kind |-> "remote_settings_handler", inner |-> matcher]

\* Whether the matcher accepts the arguments of a request.
Matches(matcher, args) ==
    CASE matcher.kind = "any" -> TRUE
      [] matcher.kind = "remote_settings_handler" ->
            /\ args[1] = "RemoteSettingsHandler"
            /\ CASE matcher.inner.kind = "get_key_prefix" -> args[2] = matcher.inner.value
                 [] matcher.inner.kind = "get_verbosity" -> args[3] = matcher.inner.value
                 [] OTHER -> TRUE
      [] matcher.kind = "elements" -> args = matcher.names
      [] matcher.kind = "contains" ->
            /\ Len(args) = matcher.size
            /\ \E i \in DOMAIN args : args[i] = matcher.names[1]
      [] matcher.kind = "automount" ->
            /\ Len(args) = 1 + 2 * matcher.size
            /\ args[1] = matcher.names[1]
            /\ \E i \in 1..matcher.size :
                  args[2 * i] = matcher.names[2] /\ args[2 * i + 1] = matcher.names[3]

(***************************************************************************)
(* Expectations.  times = -1 stands for "no Times clause"; repeatedly is   *)
(* empty or holds the one WillRepeatedly action, by_default the ON_CALL     *)
(* action; before is the send_command of the test before which the         *)
(* expectation is set.                                                     *)
(***************************************************************************)
EXPECT_CALL(rpc, matcher) ==
    [rpc |-> rpc, matcher |-> matcher, times |-> -1, at_most |-> FALSE, once |-> <<>>,
     repeatedly |-> <<>>, by_default |-> <<>>, sequenced |-> FALSE, before |-> 1]

WillOnce(e, action) == [e EXCEPT !.once = Append(@, action)]

WillRepeatedly(e, action) == [e EXCEPT !.repeatedly = <<action>>]

Times(e, n) == [e EXCEPT !.times = n]

\* Times(AtMost(n)).
Times_AtMost(e, n) == [e EXCEPT !.times = n, !.at_most = TRUE]

\* ON_CALL(...).WillByDefault(action) of the fixture, for the calls the
\* expectation takes without an action of its own.
WillByDefault(e, action) == [e EXCEPT !.by_default = <<action>>]

\* The expectation is set before the k-th send_command of the test.
Before(e, k) == [e EXCEPT !.before = k]

\* The expectations set in the scope of an `InSequence seq`.
InSequence(es) == [i \in DOMAIN es |-> [es[i] EXCEPT !.sequenced = TRUE]]

\* The expectations set with no InSequence object in scope.
Unsequenced(es) == es

\* Client::SetUp: the settings every test starts from (the mounts feature is
\* on unless the test says otherwise).
SetUp == <<WillRepeatedly(EXPECT_CALL("get_mounts", AnyRequest), setting("true"))>>

\* One send_command of a test with the return code the test expects; cout is
\* "skip" when the test looks for the skip message in the output, "no_skip"
\* when it requires the message to be absent, "" when it does not look, and
\* any other text when the output is to be exactly that text.
send_command(argv, code) == [argv |-> argv, code |-> code, cout |-> "", cerr |-> <<>>]

\* A send_command whose return code the test does not look at.
send_command_unchecked(argv) == [argv |-> argv, code |-> "", cout |-> "", cerr |-> <<>>]
send_command_cout(argv, code, cout) ==
    [argv |-> argv, code |-> code, cout |-> cout, cerr |-> <<>>]

\* A send_command that is handed the test's own cerr_stream, and the text the
\* test expects that stream to hold afterwards; with any other send_command
\* cerr is the trash_stream (cerr = <<>>).  cout is as above, or "empty" when
\* the test expects no output at all.
send_command_streams(argv, code, cout, cerr) ==
    [argv |-> argv, code |-> code, cout |-> cout, cerr |-> <<cerr>>]

\* A test: the pet-instance setting, the commands, the expectations.
TEST_F(petenv, sent, expected) ==
    [petenv |-> petenv, commands |-> sent, expectations |-> SetUp \o expected,
     db |-> {}, defaults |-> Len(SetUp)]

\* The constructor of ClientAlias: the platform mock writes and removes alias
\* scripts without complaint, any number of times.
ClientAlias ==
    <<WillRepeatedly(EXPECT_CALL("create_alias_script", AnyRequest), ok),
      WillRepeatedly(EXPECT_CALL("remove_alias_script", AnyRequest), ok)>>

\* A test of the fixture ClientAlias: populate_db_file(db), the commands, the
\* expectations.  An alias is <<name, instance, command>>.
TEST_F_ClientAlias(db, sent, expected) ==
    [petenv |-> petenv_name, commands |-> sent,
     expectations |-> SetUp \o ClientAlias \o expected,
     db |-> db, defaults |-> Len(SetUp) + Len(ClientAlias)]

(***************************************************************************)
(* The tests of the `shell` command.                                       *)
(***************************************************************************)
shell_cmd_launches_petenv_if_absent ==
    TEST_F(petenv_name,
           <<send_command(<<"shell", petenv_name>>, "Ok")>>,
           Unsequenced(<<WillRepeatedly(EXPECT_CALL("mount", AnyRequest), ok)>>)
           \o InSequence(<<
               WillOnce(EXPECT_CALL("ssh_info", make_ssh_info_instance_matcher(petenv_name)),
                        notfound),
               WillOnce(EXPECT_CALL("launch", make_launch_instance_matcher(petenv_name)), ok),
               WillOnce(EXPECT_CALL("ssh_info", make_ssh_info_instance_matcher(petenv_name)),
                        ok)>>))

\* The test with its four expectations outside any sequence.
shell_cmd_automounts_when_launching_petenv_unsequenced ==
    TEST_F(petenv_name,
           <<send_command(<<"shell", petenv_name>>, "Ok")>>,
           Unsequenced(<<WillOnce(EXPECT_CALL("ssh_info", AnyRequest), notfound),
                         WillOnce(EXPECT_CALL("launch", AnyRequest), ok),
                         WillOnce(EXPECT_CALL("mount", AnyRequest), ok),
                         WillOnce(EXPECT_CALL("ssh_info", AnyRequest), ok)>>))

shell_cmd_automounts_when_launching_petenv ==
    TEST_F(petenv_name,
           <<send_command(<<"shell", petenv_name>>, "Ok")>>,
           InSequence(<<WillOnce(EXPECT_CALL("ssh_info", AnyRequest), notfound),
                        WillOnce(EXPECT_CALL("launch", AnyRequest), ok),
                        WillOnce(EXPECT_CALL("mount", AnyRequest), ok),
                        WillOnce(EXPECT_CALL("ssh_info", AnyRequest), ok)>>))

shell_cmd_fails_if_petenv_present_but_deleted ==
    TEST_F(petenv_name,
           <<send_command(<<"shell", petenv_name>>, "CommandFail")>>,
           Unsequenced(<<
               WillOnce(EXPECT_CALL("ssh_info", make_ssh_info_instance_matcher(petenv_name)),
                        failed_precond)>>))

\* The test with ssh_info let through any number of times.
shell_cmd_fails_on_other_absent_instance_repeatedly ==
    TEST_F(petenv_name,
           <<send_command(<<"shell", "ordinary">>, "CommandFail")>>,
           Unsequenced(<<
               WillRepeatedly(EXPECT_CALL("ssh_info",
                                          make_ssh_info_instance_matcher("ordinary")),
                              notfound)>>))

shell_cmd_fails_on_other_absent_instance ==
    TEST_F(petenv_name,
           <<send_command(<<"shell", "ordinary">>, "CommandFail")>>,
           Unsequenced(<<
               WillOnce(EXPECT_CALL("ssh_info", make_ssh_info_instance_matcher("ordinary")),
                        notfound)>>))

(***************************************************************************)
(* The tests of the `exec` command.                                        *)
(***************************************************************************)
exec_cmd_fails_on_other_absent_instance ==
    TEST_F(petenv_name,
           <<send_command(<<"exec", "ordinary", "--", "command">>, "CommandFail")>>,
           Unsequenced(<<
               WillOnce(EXPECT_CALL("ssh_info", make_ssh_info_instance_matcher("ordinary")),
                        notfound)>>))

\* The test with a start matcher that takes any instance list.
shell_cmd_starts_instance_if_stopped_or_suspended_any_start ==
    TEST_F(petenv_name,
           <<send_command(<<"shell", "ordinary">>, "Ok")>>,
           InSequence(<<
               WillOnce(EXPECT_CALL("ssh_info", make_ssh_info_instance_matcher("ordinary")),
                        aborted),
               WillOnce(EXPECT_CALL("start", AnyRequest), ok),
               WillOnce(EXPECT_CALL("ssh_info", make_ssh_info_instance_matcher("ordinary")),
                        ok)>>))

shell_cmd_starts_instance_if_stopped_or_suspended ==
    TEST_F(petenv_name,
           <<send_command(<<"shell", "ordinary">>, "Ok")>>,
           InSequence(<<
               WillOnce(EXPECT_CALL("ssh_info", make_ssh_info_instance_matcher("ordinary")),
                        aborted),
               WillOnce(EXPECT_CALL("start",
                                    make_instance_in_repeated_field_matcher("ordinary", 1)),
                        ok),
               WillOnce(EXPECT_CALL("ssh_info", make_ssh_info_instance_matcher("ordinary")),
                        ok)>>))

shell_cmd_starts_petenv_if_stopped_or_suspended ==
    TEST_F(petenv_name,
           <<send_command(<<"shell", petenv_name>>, "Ok")>>,
           InSequence(<<
               WillOnce(EXPECT_CALL("ssh_info", make_ssh_info_instance_matcher(petenv_name)),
                        aborted),
               WillOnce(EXPECT_CALL("start",
                                    make_instance_in_repeated_field_matcher(petenv_name, 1)),
                        ok),
               WillOnce(EXPECT_CALL("ssh_info", make_ssh_info_instance_matcher(petenv_name)),
                        ok)>>))

exec_cmd_starts_instance_if_stopped_or_suspended ==
    TEST_F(petenv_name,
           <<send_command(<<"exec", "ordinary", "--", "command">>, "Ok")>>,
           InSequence(<<
               WillOnce(EXPECT_CALL("ssh_info", make_ssh_info_instance_matcher("ordinary")),
                        aborted),
               WillOnce(EXPECT_CALL("start",
                                    make_instance_in_repeated_field_matcher("ordinary", 1)),
                        ok),
               WillOnce(EXPECT_CALL("ssh_info", make_ssh_info_instance_matcher("ordinary")),
                        ok)>>))

(***************************************************************************)
(* The tests of the `start` command.                                       *)
(***************************************************************************)
start_cmd_launches_petenv_if_absent ==
    TEST_F(petenv_name,
           <<send_command(<<"start", petenv_name>>, "Ok")>>,
           Unsequenced(<<WillRepeatedly(EXPECT_CALL("mount", AnyRequest), ok)>>)
           \o InSequence(<<
               WillOnce(EXPECT_CALL("start",
                                    make_instance_in_repeated_field_matcher(petenv_name, 1)),
                        aborted_start_status({petenv_name}, {})),
               WillOnce(EXPECT_CALL("launch", make_launch_instance_matcher(petenv_name)), ok),
               WillOnce(EXPECT_CALL("start",
                                    make_instance_in_repeated_field_matcher(petenv_name, 1)),
                        ok)>>))

start_cmd_launches_petenv_if_absent_among_others_present ==
    LET instances == <<"a", "b", petenv_name, "c">>
    IN  TEST_F(petenv_name,
               <<send_command(<<"start">> \o instances, "Ok")>>,
               Unsequenced(<<WillRepeatedly(EXPECT_CALL("mount", AnyRequest), ok)>>)
               \o InSequence(<<
                   WillOnce(EXPECT_CALL("start", make_instances_sequence_matcher(instances)),
                            aborted_start_status({petenv_name}, {})),
                   WillOnce(EXPECT_CALL("launch", make_launch_instance_matcher(petenv_name)),
                            ok),
                   WillOnce(EXPECT_CALL("start", make_instances_sequence_matcher(instances)),
                            ok)>>))

start_cmd_fails_if_petenv_if_absent_amont_others_absent ==
    LET instances == <<"a", "b", "c", petenv_name, "xyz">>
    IN  TEST_F(petenv_name,
               <<send_command(<<"start">> \o instances, "CommandFail")>>,
               Unsequenced(<<
                   WillOnce(EXPECT_CALL("start", make_instances_sequence_matcher(instances)),
                            aborted_start_status({instances[i] : i \in 3..Len(instances)},
                                                 {}))>>))

start_cmd_fails_if_petenv_if_absent_amont_others_deleted ==
    LET instances == <<"nope", petenv_name>>
    IN  TEST_F(petenv_name,
               <<send_command(<<"start">> \o instances, "CommandFail")>>,
               Unsequenced(<<
                   WillOnce(EXPECT_CALL("start", make_instances_sequence_matcher(instances)),
                            aborted_start_status({}, {instances[1]}))>>))

\* The test with the pet instance reported as absent, not as deleted.
start_cmd_fails_if_petenv_present_but_deleted_reported_absent ==
    TEST_F(petenv_name,
           <<send_command(<<"start", petenv_name>>, "CommandFail")>>,
           InSequence(<<
               WillOnce(EXPECT_CALL("start",
                                    make_instance_in_repeated_field_matcher(petenv_name, 1)),
                        aborted_start_status({petenv_name}, {}))>>))

start_cmd_fails_if_petenv_present_but_deleted ==
    TEST_F(petenv_name,
           <<send_command(<<"start", petenv_name>>, "CommandFail")>>,
           InSequence(<<
               WillOnce(EXPECT_CALL("start",
                                    make_instance_in_repeated_field_matcher(petenv_name, 1)),
                        aborted_start_status({}, {petenv_name}))>>))

start_cmd_fails_if_petenv_present_but_deleted_among_others ==
    LET instances == <<petenv_name, "other">>
    IN  TEST_F(petenv_name,
               <<send_command(<<"start">> \o instances, "CommandFail")>>,
               Unsequenced(<<
                   WillOnce(EXPECT_CALL("start", make_instances_sequence_matcher(instances)),
                            aborted_start_status({}, {instances[1]}))>>))

(***************************************************************************)
(* The tests of a failing home automount, for shell, start and launch.     *)
(***************************************************************************)
shellCmdFailsWhenUnableToRetrieveAutomountSetting ==
    TEST_F(petenv_name,
           <<send_command(<<"shell", petenv_name>>, "CommandFail")>>,
           InSequence(<<WillOnce(EXPECT_CALL("ssh_info", AnyRequest), notfound),
                        WillOnce(EXPECT_CALL("launch", AnyRequest), ok),
                        WillOnce(EXPECT_CALL("get_mounts", AnyRequest), setting("throw")),
                        Times(EXPECT_CALL("mount", AnyRequest), 0)>>))

\* The test with a second ssh_info let through after the failed mount.
shell_cmd_fails_when_automounting_in_petenv_fails_and_retries ==
    TEST_F(petenv_name,
           <<send_command(<<"shell", petenv_name>>, "CommandFail")>>,
           InSequence(<<WillOnce(EXPECT_CALL("ssh_info", AnyRequest), notfound),
                        WillOnce(EXPECT_CALL("launch", AnyRequest), ok),
                        WillOnce(EXPECT_CALL("mount", AnyRequest), invalid_argument),
                        WillOnce(EXPECT_CALL("ssh_info", AnyRequest), ok)>>))

shell_cmd_fails_when_automounting_in_petenv_fails ==
    TEST_F(petenv_name,
           <<send_command(<<"shell", petenv_name>>, "CommandFail")>>,
           InSequence(<<WillOnce(EXPECT_CALL("ssh_info", AnyRequest), notfound),
                        WillOnce(EXPECT_CALL("launch", AnyRequest), ok),
                        WillOnce(EXPECT_CALL("mount", AnyRequest), invalid_argument)>>))

startCmdFailsWhenUnableToRetrieveAutomountSetting ==
    TEST_F(petenv_name,
           <<send_command(<<"start", petenv_name>>, "CommandFail")>>,
           InSequence(<<WillOnce(EXPECT_CALL("start", AnyRequest),
                                 aborted_start_status({petenv_name}, {})),
                        WillOnce(EXPECT_CALL("launch", AnyRequest), ok),
                        WillOnce(EXPECT_CALL("get_mounts", AnyRequest), setting("throw")),
                        Times(EXPECT_CALL("mount", AnyRequest), 0)>>))

start_cmd_fails_when_automounting_in_petenv_fails ==
    TEST_F(petenv_name,
           <<send_command(<<"start", petenv_name>>, "CommandFail")>>,
           InSequence(<<WillOnce(EXPECT_CALL("start", AnyRequest),
                                 aborted_start_status({petenv_name}, {})),
                        WillOnce(EXPECT_CALL("launch", AnyRequest), ok),
                        WillOnce(EXPECT_CALL("mount", AnyRequest), invalid_argument)>>))

launchCmdFailsWhenUnableToRetrieveAutomountSetting ==
    TEST_F(petenv_name,
           <<send_command(<<"launch", "--name", petenv_name>>, "CommandFail")>>,
           InSequence(<<WillOnce(EXPECT_CALL("launch", AnyRequest), ok),
                        WillOnce(EXPECT_CALL("get_mounts", AnyRequest), setting("throw")),
                        Times(EXPECT_CALL("mount", AnyRequest), 0)>>))

launch_cmd_fails_when_automounting_in_petenv_fails ==
    TEST_F(petenv_name,
           <<send_command(<<"launch", "--name", petenv_name>>, "CommandFail")>>,
           InSequence(<<WillOnce(EXPECT_CALL("launch", AnyRequest), ok),
                        WillOnce(EXPECT_CALL("mount", AnyRequest), invalid_argument)>>))

(***************************************************************************)
(* The tests with the mounts feature disabled.                             *)
(***************************************************************************)
\* The test without its look at the output.
shellCmdSkipsAutomountWhenDisabled_output_unchecked ==
    TEST_F(petenv_name,
           <<send_command(<<"shell", petenv_name>>, "Ok")>>,
           InSequence(<<WillOnce(EXPECT_CALL("ssh_info", AnyRequest), notfound),
                        WillOnce(EXPECT_CALL("launch", AnyRequest), ok),
                        WillOnce(EXPECT_CALL("get_mounts", AnyRequest), setting("false")),
                        Times(EXPECT_CALL("mount", AnyRequest), 0),
                        WillOnce(EXPECT_CALL("ssh_info", AnyRequest), ok)>>))

shellCmdSkipsAutomountWhenDisabled ==
    TEST_F(petenv_name,
           <<send_command_cout(<<"shell", petenv_name>>, "Ok", "skip")>>,
           InSequence(<<WillOnce(EXPECT_CALL("ssh_info", AnyRequest), notfound),
                        WillOnce(EXPECT_CALL("launch", AnyRequest), ok),
                        WillOnce(EXPECT_CALL("get_mounts", AnyRequest), setting("false")),
                        Times(EXPECT_CALL("mount", AnyRequest), 0),
                        WillOnce(EXPECT_CALL("ssh_info", AnyRequest), ok)>>))

startCmdSkipsAutomountWhenDisabled ==
    TEST_F(petenv_name,
           <<send_command_cout(<<"start", petenv_name>>, "Ok", "skip")>>,
           InSequence(<<WillOnce(EXPECT_CALL("start", AnyRequest),
                                 aborted_start_status({petenv_name}, {})),
                        WillOnce(EXPECT_CALL("launch", AnyRequest), ok),
                        WillOnce(EXPECT_CALL("get_mounts", AnyRequest), setting("false")),
                        Times(EXPECT_CALL("mount", AnyRequest), 0),
                        WillOnce(EXPECT_CALL("start", AnyRequest), ok)>>))

launchCmdSkipsAutomountWhenDisabled ==
    TEST_F(petenv_name,
           <<send_command_cout(<<"launch", "--name", petenv_name>>, "Ok", "skip")>>,
           Unsequenced(<<WillOnce(EXPECT_CALL("get_mounts", AnyRequest), setting("false")),
                         WillOnce(EXPECT_CALL("launch", AnyRequest), ok),
                         Times(EXPECT_CALL("mount", AnyRequest), 0)>>))

(***************************************************************************)
(* The tests of the `launch` command.                                      *)
(***************************************************************************)
launch_cmd_automounts_home_in_petenv ==
    TEST_F(petenv_name,
           <<send_command(<<"launch", "--name", petenv_name>>, "Ok")>>,
           InSequence(<<
               WillOnce(EXPECT_CALL("launch", make_launch_instance_matcher(petenv_name)), ok),
               WillOnce(EXPECT_CALL("mount", make_automount_matcher), ok)>>))

launchCmdOnlyWarnsMountForPetEnv ==
    TEST_F(petenv_name,
           <<send_command_cout(<<"launch", "--name", ".asdf">>, "CommandFail", "no_skip")>>,
           Unsequenced(<<
               WillRepeatedly(EXPECT_CALL("get_mounts", AnyRequest), setting("false")),
               WillOnce(EXPECT_CALL("launch", AnyRequest), invalid_argument)>>))

launch_cmd_does_not_automount_in_normal_instances ==
    TEST_F(petenv_name,
           <<send_command(<<"launch">>, "Ok")>>,
           Unsequenced(<<EXPECT_CALL("launch", AnyRequest),
                         Times(EXPECT_CALL("mount", AnyRequest), 0)>>))

(***************************************************************************)
(* The tests of the commands with the pet instance disabled: the setting   *)
(* mp::petenv_key reads as the empty string.                               *)
(***************************************************************************)
\* The same test with the first expectation of ssh_info left at its default of
\* one call instead of Times(0).
shell_cmd_disabled_petenv_expecting_a_call ==
    TEST_F("",
           <<send_command(<<"shell">>, "CommandLineError"),
             send_command(<<"shell", "foo">>, "Ok"),
             send_command(<<"shell", "primary">>, "Ok")>>,
           Unsequenced(<<EXPECT_CALL("ssh_info", AnyRequest),
                         Before(Times(EXPECT_CALL("ssh_info", AnyRequest), 2), 2)>>))

shell_cmd_disabled_petenv ==
    TEST_F("",
           <<send_command(<<"shell">>, "CommandLineError"),
             send_command(<<"shell", "foo">>, "Ok"),
             send_command(<<"shell", "primary">>, "Ok")>>,
           Unsequenced(<<Times(EXPECT_CALL("ssh_info", AnyRequest), 0),
                         Before(Times(EXPECT_CALL("ssh_info", AnyRequest), 2), 2)>>))

start_cmd_disabled_petenv ==
    TEST_F("",
           <<send_command(<<"start", "foo">>, "Ok"),
             send_command(<<"start">>, "CommandLineError")>>,
           Unsequenced(<<EXPECT_CALL("start", AnyRequest)>>))

stop_cmd_disabled_petenv ==
    TEST_F("",
           <<send_command(<<"stop">>, "CommandLineError"),
             send_command(<<"stop", "--cancel">>, "CommandLineError"),
             send_command(<<"stop", "--time", "10">>, "CommandLineError")>>,
           <<>>)

stop_cmd_disabled_petenv_with_instance ==
    TEST_F("",
           <<send_command(<<"stop">>, "CommandLineError"),
             send_command(<<"stop", "foo">>, "Ok"),
             send_command(<<"stop", "--cancel">>, "CommandLineError"),
             send_command(<<"stop", "--time", "10">>, "CommandLineError")>>,
           Unsequenced(<<EXPECT_CALL("stop", AnyRequest)>>))

\* TEST_F(Client, suspend_cmd_disabled_petenv) and
\* TEST_F(Client, restart_cmd_disabled_petenv), of the same body.
cmd_disabled_petenv(cmd) ==
    TEST_F("",
           <<send_command(<<cmd>>, "CommandLineError"),
             send_command(<<cmd, "foo">>, "Ok")>>,
           Unsequenced(<<EXPECT_CALL(cmd, AnyRequest)>>))

\* TEST_F(Client, <cmd>_cmd_disabled_petenv_all) of the four commands.
cmd_disabled_petenv_all(cmd) ==
    TEST_F("",
           <<send_command(<<cmd, "--all">>, "Ok")>>,
           Unsequenced(<<EXPECT_CALL(cmd, AnyRequest)>>))

(***************************************************************************)
(* The tests of the instance list that `start`, `stop`, `suspend` and      *)
(* `restart` send.                                                         *)
(***************************************************************************)
\* Each of these tests exists once for each of the four commands, as
\* TEST_F(Client, <cmd>_cmd_...), with the same body.
cmd_fails_with_names_and_all(cmd) ==
    TEST_F(petenv_name,
           <<send_command(<<cmd, "--all", "foo", "bar">>, "CommandLineError")>>,
           <<>>)

cmd_no_args_targets_petenv(cmd) ==
    TEST_F(petenv_name,
           <<send_command(<<cmd>>, "Ok")>>,
           Unsequenced(<<EXPECT_CALL(cmd,
                           make_instance_in_repeated_field_matcher(petenv_name, 1))>>))

cmd_considers_configured_petenv(cmd) ==
    TEST_F("jarjar binks",
           <<send_command(<<cmd>>, "Ok")>>,
           Unsequenced(<<EXPECT_CALL(cmd,
                           make_instance_in_repeated_field_matcher("jarjar binks", 1))>>))

\* The same test with an expectation that takes any list of instances.
cmd_does_not_add_petenv_to_others_any_list(cmd) ==
    TEST_F(petenv_name,
           <<send_command(<<cmd, "foo", "bar">>, "Ok")>>,
           Unsequenced(<<EXPECT_CALL(cmd, AnyRequest)>>))

cmd_does_not_add_petenv_to_others(cmd) ==
    TEST_F(petenv_name,
           <<send_command(<<cmd, "foo", "bar">>, "Ok")>>,
           Unsequenced(<<EXPECT_CALL(cmd,
                           make_instances_sequence_matcher(<<"foo", "bar">>))>>))

cmd_does_not_add_petenv_to_all(cmd) ==
    TEST_F(petenv_name,
           <<send_command(<<cmd, "--all">>, "Ok")>>,
           Unsequenced(<<EXPECT_CALL(cmd, make_instances_sequence_matcher(<<>>))>>))

(***************************************************************************)
(* The tests of the remote settings handler, each for the commands of      *)
(* RemoteHandlerTest::cmds.                                                *)
(***************************************************************************)
registersRemoteSettingsHandler(cmd) ==
    TEST_F(petenv_name,
           <<send_command_unchecked(<<cmd>>)>>,
           Unsequenced(<<Times(EXPECT_CALL("register_handler",
                                           match_uptr_to_remote_settings_handler(
                                               Property("get_key_prefix", "local."))),
                               1)>>))

\* unregistersRemoteSettingsHandler taking any number of unregistrations.
unregistersRemoteSettingsHandler_any_number(cmd) ==
    TEST_F(petenv_name,
           <<send_command_unchecked(<<cmd>>)>>,
           Unsequenced(<<WillOnce(EXPECT_CALL("register_handler",
                                              match_uptr_to_remote_settings_handler(AnyRequest)),
                                  handler),
                         WillRepeatedly(EXPECT_CALL("unregister_handler",
                                                    make_instances_sequence_matcher(<<handler>>)),
                                        ok)>>))

unregistersRemoteSettingsHandler(cmd) ==
    TEST_F(petenv_name,
           <<send_command_unchecked(<<cmd>>)>>,
           Unsequenced(<<WillOnce(EXPECT_CALL("register_handler",
                                              match_uptr_to_remote_settings_handler(AnyRequest)),
                                  handler),
                         Times(EXPECT_CALL("unregister_handler",
                                           make_instances_sequence_matcher(<<handler>>)),
                               1)>>))

\* std::string(n, 'v').
RECURSIVE string_of_v(_)
string_of_v(n) == IF n = 0 THEN "" ELSE "v" \o string_of_v(n - 1)

honors_verbosity_in_remote_settings_handler(num_vs, cmd) ==
    TEST_F(petenv_name,
           <<send_command_unchecked(<<(IF num_vs # 0 THEN "-" ELSE "") \o string_of_v(num_vs),
                                      cmd>>)>>,
           Unsequenced(<<Times(EXPECT_CALL("register_handler",
                                           match_uptr_to_remote_settings_handler(
                                               Property("get_verbosity", num_vs))),
                               1)>>))

(***************************************************************************)
(* The tests of TimeoutSuite, each for the commands of timeout_commands.   *)
(* The fixture's ON_CALL has the four requests answered by request_sleeper.*)
(***************************************************************************)
TimeoutSuite_expectations ==
    <<WillByDefault(Times_AtMost(EXPECT_CALL("launch", AnyRequest), 1), request_sleeper),
      WillByDefault(Times_AtMost(EXPECT_CALL("start", AnyRequest), 1), request_sleeper),
      WillByDefault(Times_AtMost(EXPECT_CALL("restart", AnyRequest), 1), request_sleeper),
      WillByDefault(Times_AtMost(EXPECT_CALL("ssh_info", AnyRequest), 1), request_sleeper)>>

command_exits_on_timeout(cmd) ==
    TEST_F(petenv_name,
           <<send_command_unchecked(<<cmd, "--timeout", "1">>)>>,
           Unsequenced(TimeoutSuite_expectations
                           \o <<EXPECT_CALL("exit",
                                            make_instances_sequence_matcher(
                                                <<timeout_exit_code>>))>>))

command_completes_without_timeout(cmd) ==
    TEST_F(petenv_name,
           <<send_command(<<cmd, "--timeout", "5">>, "Ok")>>,
           Unsequenced(TimeoutSuite_expectations))

(***************************************************************************)
(* The tests of the `alias` and `unalias` commands.  The aliases the tests *)
(* store with populate_db_file, and the listings they expect.              *)
(***************************************************************************)
an_alias == <<"an_alias", "an_instance", "a_command">>
another_alias == <<"another_alias", "another_instance", "another_command">>

aliases_csv == <<"aliases", "--format=csv">>

alias_creates_alias ==
    TEST_F_ClientAlias({an_alias},
        <<send_command(<<"alias", "primary:another_command", "another_alias">>, "Ok"),
          send_command_cout(aliases_csv, "",
              "Alias,Instance,Command\nan_alias,an_instance,a_command\nanother_alias,"
              \o "primary,another_command\n")>>,
        <<WillRepeatedly(Times_AtMost(EXPECT_CALL("info", AnyRequest), 1), info_function)>>)

fails_if_cannot_write_script ==
    TEST_F_ClientAlias({},
        <<send_command_streams(<<"alias", "primary:command">>, "CommandLineError", "",
                               "Error when creating script for alias: aaa\n"),
          send_command_cout(aliases_csv, "", "Alias,Instance,Command\n")>>,
        <<WillRepeatedly(Times(EXPECT_CALL("create_alias_script", AnyRequest), 1),
                         Throw("aaa")),
          WillRepeatedly(Times_AtMost(EXPECT_CALL("info", AnyRequest), 1), info_function)>>)

\* The test, were it to expect the stored alias to be overwritten.
alias_does_not_overwrite_alias_but_expects_it ==
    TEST_F_ClientAlias({an_alias},
        <<send_command_streams(<<"alias", "primary:another_command", "an_alias">>,
                               "CommandLineError", "", "Alias 'an_alias' already exists\n"),
          send_command_cout(aliases_csv, "",
              "Alias,Instance,Command\nan_alias,primary,another_command\n")>>,
        <<WillRepeatedly(Times_AtMost(EXPECT_CALL("info", AnyRequest), 1), info_function)>>)

alias_does_not_overwrite_alias ==
    TEST_F_ClientAlias({an_alias},
        <<send_command_streams(<<"alias", "primary:another_command", "an_alias">>,
                               "CommandLineError", "", "Alias 'an_alias' already exists\n"),
          send_command_cout(aliases_csv, "",
              "Alias,Instance,Command\nan_alias,an_instance,a_command\n")>>,
        <<WillRepeatedly(Times_AtMost(EXPECT_CALL("info", AnyRequest), 1), info_function)>>)

alias_refuses_creation_unexisting_instance ==
    TEST_F_ClientAlias({an_alias},
        <<send_command_streams(<<"alias", "foo:another_command", "another_alias">>, "",
                               "empty", "Instance 'foo' does not exist\n"),
          send_command_cout(aliases_csv, "",
              "Alias,Instance,Command\nan_alias,an_instance,a_command\n")>>,
        <<WillRepeatedly(Times_AtMost(EXPECT_CALL("info", AnyRequest), 1), info_function)>>)

alias_refuses_creation_rpc_error ==
    TEST_F_ClientAlias({an_alias},
        <<send_command_streams(<<"alias", "foo:another_command", "another_alias">>, "",
                               "empty", "Error retrieving list of instances\n"),
          send_command_cout(aliases_csv, "",
              "Alias,Instance,Command\nan_alias,an_instance,a_command\n")>>,
        <<WillOnce(EXPECT_CALL("info", AnyRequest), notfound)>>)

unalias_removes_existing_alias ==
    TEST_F_ClientAlias({an_alias, another_alias},
        <<send_command(<<"unalias", "another_alias">>, "Ok"),
          send_command_cout(aliases_csv, "",
              "Alias,Instance,Command\nan_alias,an_instance,a_command\n")>>,
        <<>>)

unalias_succeeds_even_if_script_cannot_be_removed ==
    TEST_F_ClientAlias({an_alias, another_alias},
        <<send_command_streams(<<"unalias", "another_alias">>, "Ok", "",
              "Warning: 'bbb' when removing alias script for another_alias\n"),
          send_command_cout(aliases_csv, "",
              "Alias,Instance,Command\nan_alias,an_instance,a_command\n")>>,
        <<WillRepeatedly(Times(EXPECT_CALL("remove_alias_script", AnyRequest), 1),
                         Throw("bbb"))>>)

\* The test, were it to expect the other alias to be gone.
unalias_does_not_remove_unexisting_alias_but_expects_it ==
    TEST_F_ClientAlias({an_alias, another_alias},
        <<send_command_streams(<<"unalias", "unexisting_alias">>, "CommandLineError", "",
                               "Alias 'unexisting_alias' does not exist\n"),
          send_command_cout(aliases_csv, "",
              "Alias,Instance,Command\nan_alias,an_instance,a_command\n")>>,
        <<>>)

unalias_does_not_remove_unexisting_alias ==
    TEST_F_ClientAlias({an_alias, another_alias},
        <<send_command_streams(<<"unalias", "unexisting_alias">>, "CommandLineError", "",
                               "Alias 'unexisting_alias' does not exist\n"),
          send_command_cout(aliases_csv, "",
              "Alias,Instance,Command\nan_alias,an_instance,a_command\nanother_alias,"
              \o "another_instance,another_command\n")>>,
        <<>>)

\* The tests of the fixture `Client` modelled.
ClientTests == {"shell_cmd_launches_petenv_if_absent",
                "shell_cmd_automounts_when_launching_petenv",
                "shell_cmd_fails_if_petenv_present_but_deleted",
                "shell_cmd_fails_on_other_absent_instance",
                "exec_cmd_fails_on_other_absent_instance",
                "shell_cmd_starts_instance_if_stopped_or_suspended",
                "shell_cmd_starts_petenv_if_stopped_or_suspended",
                "exec_cmd_starts_instance_if_stopped_or_suspended",
                "start_cmd_launches_petenv_if_absent",
                "start_cmd_launches_petenv_if_absent_among_others_present",
                "start_cmd_fails_if_petenv_if_absent_amont_others_absent",
                "start_cmd_fails_if_petenv_if_absent_amont_others_deleted",
                "start_cmd_fails_if_petenv_present_but_deleted",
                "start_cmd_fails_if_petenv_present_but_deleted_among_others",
                "shellCmdFailsWhenUnableToRetrieveAutomountSetting",
                "shell_cmd_fails_when_automounting_in_petenv_fails",
                "startCmdFailsWhenUnableToRetrieveAutomountSetting",
                "start_cmd_fails_when_automounting_in_petenv_fails",
                "launchCmdFailsWhenUnableToRetrieveAutomountSetting",
                "launch_cmd_fails_when_automounting_in_petenv_fails",
                "shellCmdSkipsAutomountWhenDisabled",
                "startCmdSkipsAutomountWhenDisabled",
                "launchCmdSkipsAutomountWhenDisabled",
                "launch_cmd_automounts_home_in_petenv",
                "launchCmdOnlyWarnsMountForPetEnv",
                "launch_cmd_does_not_automount_in_normal_instances",
                "shell_cmd_disabled_petenv",
                "start_cmd_disabled_petenv",
                "start_cmd_disabled_petenv_all",
                "stop_cmd_disabled_petenv",
                "stop_cmd_disabled_petenv_with_instance",
                "stop_cmd_disabled_petenv_all",
                "suspend_cmd_disabled_petenv",
                "suspend_cmd_disabled_petenv_all",
                "restart_cmd_disabled_petenv",
                "restart_cmd_disabled_petenv_all",
                "start_cmd_fails_with_names_and_all",
                "start_cmd_no_args_targets_petenv",
                "start_cmd_considers_configured_petenv",
                "start_cmd_does_not_add_petenv_to_others",
                "start_cmd_does_not_add_petenv_to_all",
                "stop_cmd_fails_with_names_and_all",
                "stop_cmd_no_args_targets_petenv",
                "stop_cmd_considers_configured_petenv",
                "stop_cmd_does_not_add_petenv_to_others",
                "stop_cmd_does_not_add_petenv_to_all",
                "suspend_cmd_fails_with_names_and_all",
                "suspend_cmd_no_args_targets_petenv",
                "suspend_cmd_considers_configured_petenv",
                "suspend_cmd_does_not_add_petenv_to_others",
                "suspend_cmd_does_not_add_petenv_to_all",
                "restart_cmd_fails_with_names_and_all",
                "restart_cmd_no_args_targets_petenv",
                "restart_cmd_considers_configured_petenv",
                "restart_cmd_does_not_add_petenv_to_others",
                "restart_cmd_does_not_add_petenv_to_all",
                "registersRemoteSettingsHandler_empty",
                "unregistersRemoteSettingsHandler_empty",
                "honors_verbosity_in_remote_settings_handler_0_empty",
                "honors_verbosity_in_remote_settings_handler_1_empty",
                "honors_verbosity_in_remote_settings_handler_2_empty",
                "honors_verbosity_in_remote_settings_handler_3_empty",
                "honors_verbosity_in_remote_settings_handler_4_empty",
                "registersRemoteSettingsHandler_blank",
                "unregistersRemoteSettingsHandler_blank",
                "honors_verbosity_in_remote_settings_handler_0_blank",
                "honors_verbosity_in_remote_settings_handler_1_blank",
                "honors_verbosity_in_remote_settings_handler_2_blank",
                "honors_verbosity_in_remote_settings_handler_3_blank",
                "honors_verbosity_in_remote_settings_handler_4_blank",
                "registersRemoteSettingsHandler_help",
                "unregistersRemoteSettingsHandler_help",
                "honors_verbosity_in_remote_settings_handler_0_help",
                "honors_verbosity_in_remote_settings_handler_1_help",
                "honors_verbosity_in_remote_settings_handler_2_help",
                "honors_verbosity_in_remote_settings_handler_3_help",
                "honors_verbosity_in_remote_settings_handler_4_help",
                "registersRemoteSettingsHandler_get",
                "unregistersRemoteSettingsHandler_get",
                "honors_verbosity_in_remote_settings_handler_0_get",
                "honors_verbosity_in_remote_settings_handler_1_get",
                "honors_verbosity_in_remote_settings_handler_2_get",
                "honors_verbosity_in_remote_settings_handler_3_get",
                "honors_verbosity_in_remote_settings_handler_4_get",
                "command_exits_on_timeout_launch",
                "command_completes_without_timeout_launch",
                "command_exits_on_timeout_start",
                "command_completes_without_timeout_start",
                "command_exits_on_timeout_restart",
                "command_completes_without_timeout_restart",
                "command_exits_on_timeout_shell",
                "command_completes_without_timeout_shell",
                "alias_creates_alias",
                "fails_if_cannot_write_script",
                "alias_does_not_overwrite_alias",
                "alias_refuses_creation_unexisting_instance",
                "alias_refuses_creation_rpc_error",
                "unalias_removes_existing_alias",
                "unalias_succeeds_even_if_script_cannot_be_removed",
                "unalias_does_not_remove_unexisting_alias"}

\* The test of that name.
cli_test(t) ==
    CASE t = "shell_cmd_launches_petenv_if_absent" ->
            shell_cmd_launches_petenv_if_absent
      [] t = "shell_cmd_automounts_when_launching_petenv" ->
            shell_cmd_automounts_when_launching_petenv
      [] t = "shell_cmd_fails_if_petenv_present_but_deleted" ->
            shell_cmd_fails_if_petenv_present_but_deleted
      [] t = "shell_cmd_fails_on_other_absent_instance" ->
            shell_cmd_fails_on_other_absent_instance
      [] t = "exec_cmd_fails_on_other_absent_instance" ->
            exec_cmd_fails_on_other_absent_instance
      [] t = "shell_cmd_starts_instance_if_stopped_or_suspended" ->
            shell_cmd_starts_instance_if_stopped_or_suspended
      [] t = "shell_cmd_starts_petenv_if_stopped_or_suspended" ->
            shell_cmd_starts_petenv_if_stopped_or_suspended
      [] t = "exec_cmd_starts_instance_if_stopped_or_suspended" ->
            exec_cmd_starts_instance_if_stopped_or_suspended
      [] t = "start_cmd_launches_petenv_if_absent" ->
            start_cmd_launches_petenv_if_absent
      [] t = "start_cmd_launches_petenv_if_absent_among_others_present" ->
            start_cmd_launches_petenv_if_absent_among_others_present
      [] t = "start_cmd_fails_if_petenv_if_absent_amont_others_absent" ->
            start_cmd_fails_if_petenv_if_absent_amont_others_absent
      [] t = "start_cmd_fails_if_petenv_if_absent_amont_others_deleted" ->
            start_cmd_fails_if_petenv_if_absent_amont_others_deleted
      [] t = "start_cmd_fails_if_petenv_present_but_deleted" ->
            start_cmd_fails_if_petenv_present_but_deleted
      [] t = "start_cmd_fails_if_petenv_present_but_deleted_among_others" ->
            start_cmd_fails_if_petenv_present_but_deleted_among_others
      [] t = "shellCmdFailsWhenUnableToRetrieveAutomountSetting" ->
            shellCmdFailsWhenUnableToRetrieveAutomountSetting
      [] t = "shell_cmd_fails_when_automounting_in_petenv_fails" ->
            shell_cmd_fails_when_automounting_in_petenv_fails
      [] t = "startCmdFailsWhenUnableToRetrieveAutomountSetting" ->
            startCmdFailsWhenUnableToRetrieveAutomountSetting
      [] t = "start_cmd_fails_when_automounting_in_petenv_fails" ->
            start_cmd_fails_when_automounting_in_petenv_fails
      [] t = "launchCmdFailsWhenUnableToRetrieveAutomountSetting" ->
            launchCmdFailsWhenUnableToRetrieveAutomountSetting
      [] t = "launch_cmd_fails_when_automounting_in_petenv_fails" ->
            launch_cmd_fails_when_automounting_in_petenv_fails
      [] t = "shellCmdSkipsAutomountWhenDisabled" ->
            shellCmdSkipsAutomountWhenDisabled
      [] t = "startCmdSkipsAutomountWhenDisabled" ->
            startCmdSkipsAutomountWhenDisabled
      [] t = "launchCmdSkipsAutomountWhenDisabled" ->
            launchCmdSkipsAutomountWhenDisabled
      [] t = "launch_cmd_automounts_home_in_petenv" ->
            launch_cmd_automounts_home_in_petenv
      [] t = "launchCmdOnlyWarnsMountForPetEnv" ->
            launchCmdOnlyWarnsMountForPetEnv
      [] t = "launch_cmd_does_not_automount_in_normal_instances" ->
            launch_cmd_does_not_automount_in_normal_instances
      [] t = "shell_cmd_disabled_petenv" ->
            shell_cmd_disabled_petenv
      [] t = "start_cmd_disabled_petenv" ->
            start_cmd_disabled_petenv
      [] t = "start_cmd_disabled_petenv_all" ->
            cmd_disabled_petenv_all("start")
      [] t = "stop_cmd_disabled_petenv" ->
            stop_cmd_disabled_petenv
      [] t = "stop_cmd_disabled_petenv_with_instance" ->
            stop_cmd_disabled_petenv_with_instance
      [] t = "stop_cmd_disabled_petenv_all" ->
            cmd_disabled_petenv_all("stop")
      [] t = "suspend_cmd_disabled_petenv" ->
            cmd_disabled_petenv("suspend")
      [] t = "suspend_cmd_disabled_petenv_all" ->
            cmd_disabled_petenv_all("suspend")
      [] t = "restart_cmd_disabled_petenv" ->
            cmd_disabled_petenv("restart")
      [] t = "restart_cmd_disabled_petenv_all" ->
            cmd_disabled_petenv_all("restart")
      [] t = "start_cmd_fails_with_names_and_all" ->
            cmd_fails_with_names_and_all("start")
      [] t = "start_cmd_no_args_targets_petenv" ->
            cmd_no_args_targets_petenv("start")
      [] t = "start_cmd_considers_configured_petenv" ->
            cmd_considers_configured_petenv("start")
      [] t = "start_cmd_does_not_add_petenv_to_others" ->
            cmd_does_not_add_petenv_to_others("start")
      [] t = "start_cmd_does_not_add_petenv_to_all" ->
            cmd_does_not_add_petenv_to_all("start")
      [] t = "stop_cmd_fails_with_names_and_all" ->
            cmd_fails_with_names_and_all("stop")
      [] t = "stop_cmd_no_args_targets_petenv" ->
            cmd_no_args_targets_petenv("stop")
      [] t = "stop_cmd_considers_configured_petenv" ->
            cmd_considers_configured_petenv("stop")
      [] t = "stop_cmd_does_not_add_petenv_to_others" ->
            cmd_does_not_add_petenv_to_others("stop")
      [] t = "stop_cmd_does_not_add_petenv_to_all" ->
            cmd_does_not_add_petenv_to_all("stop")
      [] t = "suspend_cmd_fails_with_names_and_all" ->
            cmd_fails_with_names_and_all("suspend")
      [] t = "suspend_cmd_no_args_targets_petenv" ->
            cmd_no_args_targets_petenv("suspend")
      [] t = "suspend_cmd_considers_configured_petenv" ->
            cmd_considers_configured_petenv("suspend")
      [] t = "suspend_cmd_does_not_add_petenv_to_others" ->
            cmd_does_not_add_petenv_to_others("suspend")
      [] t = "suspend_cmd_does_not_add_petenv_to_all" ->
            cmd_does_not_add_petenv_to_all("suspend")
      [] t = "restart_cmd_fails_with_names_and_all" ->
            cmd_fails_with_names_and_all("restart")
      [] t = "restart_cmd_no_args_targets_petenv" ->
            cmd_no_args_targets_petenv("restart")
      [] t = "restart_cmd_considers_configured_petenv" ->
            cmd_considers_configured_petenv("restart")
      [] t = "restart_cmd_does_not_add_petenv_to_others" ->
            cmd_does_not_add_petenv_to_others("restart")
      [] t = "restart_cmd_does_not_add_petenv_to_all" ->
            cmd_does_not_add_petenv_to_all("restart")
      [] t = "registersRemoteSettingsHandler_empty" ->
            registersRemoteSettingsHandler("")
      [] t = "unregistersRemoteSettingsHandler_empty" ->
            unregistersRemoteSettingsHandler("")
      [] t = "honors_verbosity_in_remote_settings_handler_0_empty" ->
            honors_verbosity_in_remote_settings_handler(0, "")
      [] t = "honors_verbosity_in_remote_settings_handler_1_empty" ->
            honors_verbosity_in_remote_settings_handler(1, "")
      [] t = "honors_verbosity_in_remote_settings_handler_2_empty" ->
            honors_verbosity_in_remote_settings_handler(2, "")
      [] t = "honors_verbosity_in_remote_settings_handler_3_empty" ->
            honors_verbosity_in_remote_settings_handler(3, "")
      [] t = "honors_verbosity_in_remote_settings_handler_4_empty" ->
            honors_verbosity_in_remote_settings_handler(4, "")
      [] t = "registersRemoteSettingsHandler_blank" ->
            registersRemoteSettingsHandler(" ")
      [] t = "unregistersRemoteSettingsHandler_blank" ->
            unregistersRemoteSettingsHandler(" ")
      [] t = "honors_verbosity_in_remote_settings_handler_0_blank" ->
            honors_verbosity_in_remote_settings_handler(0, " ")
      [] t = "honors_verbosity_in_remote_settings_handler_1_blank" ->
            honors_verbosity_in_remote_settings_handler(1, " ")
      [] t = "honors_verbosity_in_remote_settings_handler_2_blank" ->
            honors_verbosity_in_remote_settings_handler(2, " ")
      [] t = "honors_verbosity_in_remote_settings_handler_3_blank" ->
            honors_verbosity_in_remote_settings_handler(3, " ")
      [] t = "honors_verbosity_in_remote_settings_handler_4_blank" ->
            honors_verbosity_in_remote_settings_handler(4, " ")
      [] t = "registersRemoteSettingsHandler_help" ->
            registersRemoteSettingsHandler("help")
      [] t = "unregistersRemoteSettingsHandler_help" ->
            unregistersRemoteSettingsHandler("help")
      [] t = "honors_verbosity_in_remote_settings_handler_0_help" ->
            honors_verbosity_in_remote_settings_handler(0, "help")
      [] t = "honors_verbosity_in_remote_settings_handler_1_help" ->
            honors_verbosity_in_remote_settings_handler(1, "help")
      [] t = "honors_verbosity_in_remote_settings_handler_2_help" ->
            honors_verbosity_in_remote_settings_handler(2, "help")
      [] t = "honors_verbosity_in_remote_settings_handler_3_help" ->
            honors_verbosity_in_remote_settings_handler(3, "help")
      [] t = "honors_verbosity_in_remote_settings_handler_4_help" ->
            honors_verbosity_in_remote_settings_handler(4, "help")
      [] t = "registersRemoteSettingsHandler_get" ->
            registersRemoteSettingsHandler("get")
      [] t = "unregistersRemoteSettingsHandler_get" ->
            unregistersRemoteSettingsHandler("get")
      [] t = "honors_verbosity_in_remote_settings_handler_0_get" ->
            honors_verbosity_in_remote_settings_handler(0, "get")
      [] t = "honors_verbosity_in_remote_settings_handler_1_get" ->
            honors_verbosity_in_remote_settings_handler(1, "get")
      [] t = "honors_verbosity_in_remote_settings_handler_2_get" ->
            honors_verbosity_in_remote_settings_handler(2, "get")
      [] t = "honors_verbosity_in_remote_settings_handler_3_get" ->
            honors_verbosity_in_remote_settings_handler(3, "get")
      [] t = "honors_verbosity_in_remote_settings_handler_4_get" ->
            honors_verbosity_in_remote_settings_handler(4, "get")
      [] t = "command_exits_on_timeout_launch" ->
            command_exits_on_timeout("launch")
      [] t = "command_completes_without_timeout_launch" ->
            command_completes_without_timeout("launch")
      [] t = "command_exits_on_timeout_start" ->
            command_exits_on_timeout("start")
      [] t = "command_completes_without_timeout_start" ->
            command_completes_without_timeout("start")
      [] t = "command_exits_on_timeout_restart" ->
            command_exits_on_timeout("restart")
      [] t = "command_completes_without_timeout_restart" ->
            command_completes_without_timeout("restart")
      [] t = "command_exits_on_timeout_shell" ->
            command_exits_on_timeout("shell")
      [] t = "command_completes_without_timeout_shell" ->
            command_completes_without_timeout("shell")
      [] t = "alias_creates_alias" ->
            alias_creates_alias
      [] t = "fails_if_cannot_write_script" ->
            fails_if_cannot_write_script
      [] t = "alias_does_not_overwrite_alias" ->
            alias_does_not_overwrite_alias
      [] t = "alias_refuses_creation_unexisting_instance" ->
            alias_refuses_creation_unexisting_instance
      [] t = "alias_refuses_creation_rpc_error" ->
            alias_refuses_creation_rpc_error
      [] t = "unalias_removes_existing_alias" ->
            unalias_removes_existing_alias
      [] t = "unalias_succeeds_even_if_script_cannot_be_removed" ->
            unalias_succeeds_even_if_script_cannot_be_removed
      [] t = "unalias_does_not_remove_unexisting_alias" ->
            unalias_does_not_remove_unexisting_alias

(***************************************************************************)
(* The requests the client is let to make.                                 *)
(***************************************************************************)
\* The instance names on the command line of a send_command: the arguments
\* after the command's name, up to a "--", that are not options.
IsOption(arg) == Len(arg) > 0 /\ SubSeq(arg, 1, 1) = "-"
argv_instances(argv) ==
    LET dashes == {i \in DOMAIN argv : argv[i] = "--"}
        last == IF dashes = {} THEN Len(argv)
                ELSE (CHOOSE i \in dashes : \A j \in dashes : i <= j) - 1
    IN  SelectSeq(SubSeq(argv, 2, last), LAMBDA arg : ~IsOption(arg))

\* The list in reverse order.
Reverse(l) == [i \in DOMAIN l |-> l[Len(l) + 1 - i]]

\* The list with the pet instance added, unless it names it already.
WithPetenv(l) ==
    IF \E i \in DOMAIN l : l[i] = petenv_name THEN l ELSE Append(l, petenv_name)

\* The commands of test t.
CommandsOf(t) == {cli_test(t).commands[k] : k \in DOMAIN cli_test(t).commands}

\* The instance lists a request of test t may carry: none, the pet instance,
\* the pet instance the test configures, another instance, and for each command
\* of the test the instances it names, those in reverse, and those with the
\* pet instance added.
InstanceLists(t) ==
    {<<>>, <<petenv_name>>, <<"foo">>}
    \cup (IF cli_test(t).petenv = "" THEN {} ELSE {<<cli_test(t).petenv>>})
    \cup UNION {{argv_instances(c.argv), Reverse(argv_instances(c.argv)),
                 WithPetenv(argv_instances(c.argv))} : c \in CommandsOf(t)}

\* The names a launch request of test t may carry: the pet instance, no name,
\* and the names on the test's command lines.
LaunchNames(t) ==
    {petenv_name, ""}
    \cup UNION {{argv_instances(c.argv)[i] : i \in DOMAIN argv_instances(c.argv)} :
                c \in CommandsOf(t)}

\* The arguments a mount request may carry: the home automount, the home
\* mounted in another instance, and another source.
MountArgs == {<<fake_home, petenv_name, home_automount_dir>>,
              <<fake_home, "foo", home_automount_dir>>,
              <<"/tmp", petenv_name, home_automount_dir>>}

\* The verbosity levels of RemoteHandlerVerbosity, Range(0, 5).
Verbosities == 0..4

\* Test t runs its commands with `--timeout`.
HasTimeout(t) == \E c \in CommandsOf(t) : \E i \in DOMAIN c.argv : c.argv[i] = "--timeout"

\* The requests the client of a test of TimeoutSuite may make of the mocks; the
\* tests take a request whatever it carries, and what it carries is left out.
TimeoutRequests ==
    [rpc : {"launch", "start", "restart", "ssh_info", "stop"}, args : {<<>>}]
    \cup [rpc : {"exit"}, args : {<<timeout_exit_code>>, <<"EXIT_FAILURE">>}]

\* The commands of test t that define or remove an alias.
AliasCommands(t) == {c \in CommandsOf(t) : c.argv[1] \in {"alias", "unalias"}}

\* The text before the first colon and the text after it; without a colon the
\* first is empty.
BeforeColon(s) ==
    LET colons == {i \in 1..Len(s) : CharAt(s, i) = ":"}
    IN  IF colons = {} THEN ""
        ELSE SubSeq(s, 1, (CHOOSE i \in colons : \A j \in colons : i <= j) - 1)

AfterColon(s) ==
    LET colons == {i \in 1..Len(s) : CharAt(s, i) = ":"}
    IN  IF colons = {} THEN s
        ELSE SubSeq(s, (CHOOSE i \in colons : \A j \in colons : i <= j) + 1, Len(s))

\* The alias an `alias <instance>:<command> [<name>]` command line asks for,
\* named after the command when no name is given; and the alias name an
\* `unalias <name>` command line gives.
AliasOf(argv) ==
    <<IF Len(argv) >= 3 THEN argv[3] ELSE AfterColon(argv[2]),
      BeforeColon(argv[2]), AfterColon(argv[2])>>

AliasNameOf(argv) == IF argv[1] = "alias" THEN AliasOf(argv)[1] ELSE argv[2]

\* The requests the client of a test of ClientAlias may make of the mocks: the
\* instance query for the instance "primary" or another, and the writing and
\* the removal of the script of an alias the test names.
AliasRequests(t) ==
    [rpc : {"info"}, args : {<<"primary">>, <<"foo">>}]
    \cup [rpc : {"create_alias_script", "remove_alias_script"},
          args : {<<AliasNameOf(c.argv)>> : c \in AliasCommands(t)}]

\* The requests the client of test t may make of the mocks.
Requests(t) ==
    IF HasTimeout(t) THEN TimeoutRequests ELSE
    IF AliasCommands(t) # {} THEN AliasRequests(t) ELSE
    [rpc : {"ssh_info", "start", "stop", "suspend", "restart"}, args : InstanceLists(t)]
    \cup [rpc : {"launch"}, args : {<<name>> : name \in LaunchNames(t)}]
    \cup [rpc : {"mount"}, args : MountArgs]
    \cup [rpc : {"get_mounts"}, args : {<<>>}]
    \cup [rpc : {"register_handler"},
          args : {"RemoteSettingsHandler", "PersistentSettingsHandler"}
                     \X {"local.", "client."} \X Verbosities]
    \cup [rpc : {"unregister_handler"}, args : {<<handler>>, <<nullptr>>}]
    \cup [rpc : {"exit"}, args : {<<timeout_exit_code>>, <<"EXIT_FAILURE">>}]

\* mp::ReturnCode, as far as the tests name it.
ReturnCodes == {"Ok", "CommandFail", "CommandLineError"}

\* The tests of the fixture modelled, and the channel without a test.
Tests == CheckTests \cup FailTests
            \cup {"throws_when_sshfs_does_not_exist",
                  "throws_when_uid_is_not_an_integer",
                  "throws_when_gid_is_not_an_integer",
                  "unblocks_when_sftpserver_exits", "channel"}
            \cup InstallTests

\* The tests that declare `remaining` without initializing it.
UninitializedRemaining == FailTests \cup {"throws_when_uid_is_not_an_integer",
                                         "throws_when_gid_is_not_an_integer"}

Init ==
    /\ test \in Tests
    /\ target \in IF test = "channel" THEN {default_target, "/home/ubuntu/target"}
                  ELSE {test_target(test)}
    /\ pc \in IF test \in InstallTests THEN {"which_snap"}
              ELSE IF test = "channel" THEN {"env", "which_snap"}
              ELSE {"env"}
    /\ outstanding = FALSE
    /\ issued = <<>>
    /\ responses = <<>>
    /\ output = IF test = "unblocks_when_sftpserver_exits" THEN "1000\n" ELSE ""
    /\ remaining \in IF test \in UninitializedRemaining THEN 0..MaxGarbage
                     ELSE {Len(output)}
    /\ invoked = FALSE
    /\ next_expected_cmd = 1
    /\ exit_code = SSH_OK
    /\ invoked_fail = FALSE
    /\ add_failure = FALSE
    /\ sleep = FALSE
    /\ sshfs_exec = ""
    /\ fuse_version = [kind |-> "unset", line |-> ""]
    /\ uid = -1
    /\ gid = -1
    /\ absolute = ""
    /\ anchor = ""
    /\ log = <<>>
    /\ result = Running
    /\ client_message = FALSE
    /\ stop_requested = FALSE
    /\ stopped_ok = FALSE
    /\ attempt = 1
    /\ running_test = <<>>
    /\ calls = <<>>
    /\ call_count = <<>>
    /\ retired = {}
    /\ command = 1
    /\ returned = <<>>
    /\ cout_stream = {}
    /\ cerr_stream = {}
    /\ aliases_db = {}
    /\ verdict = "running"
    /\ mount = 0
    /\ suspended = <<>>
    /\ connection = <<>>

\* request_exec with the lambdas of the two id tests exchanged.
request_exec_swapped(cmd) ==
    IF test \in CheckTests THEN make_exec_to_check_commands(cmd)
    ELSE IF test \in FailTests THEN make_exec_that_executes_and_fails(cmd)
    ELSE IF test = "throws_when_sshfs_does_not_exist"
    THEN make_exec_that_fails_for(sshfs_does_not_exist_cmds, cmd)
    ELSE IF test = "throws_when_uid_is_not_an_integer"
    THEN id_not_an_integer_exec("id -g", cmd)
    ELSE IF test = "throws_when_gid_is_not_an_integer"
    THEN id_not_an_integer_exec("id -u", cmd)
    ELSE IF test = "unblocks_when_sftpserver_exits" THEN unblocks_request_exec(cmd)
    ELSE channel_execute(pc)

\* ssh_channel_request_exec as the test of this run replaced it.
request_exec(cmd) ==
    IF test \in CheckTests THEN make_exec_to_check_commands(cmd)
    ELSE IF test \in FailTests THEN make_exec_that_executes_and_fails(cmd)
    ELSE IF test = "throws_when_sshfs_does_not_exist"
    THEN make_exec_that_fails_for(sshfs_does_not_exist_cmds, cmd)
    ELSE IF test = "throws_when_uid_is_not_an_integer"
    THEN id_not_an_integer_exec("id -u", cmd)
    ELSE IF test = "throws_when_gid_is_not_an_integer"
    THEN id_not_an_integer_exec("id -g", cmd)
    ELSE IF test = "unblocks_when_sftpserver_exits" THEN unblocks_request_exec(cmd)
    ELSE channel_execute(pc)

\* The command of the stage issued without waiting for the response of the
\* command before it.
Issue_pipelined ==
    /\ pc \in StageSet \cup InstallStageSet
    /\ outstanding' = TRUE
    /\ issued' = Append(issued, stage_cmd(pc))
    /\ IF pc \in InstallStageSet THEN install_request_exec(stage_cmd(pc))
       ELSE request_exec(stage_cmd(pc)) /\ UNCHANGED sleep
    /\ UNCHANGED <<cliVars, concVars, test, target, pc, responses, bootVars, log, result, lifeVars, attempt>>

\* The bootstrap issues the command of its stage.
Issue ==
    /\ pc \in StageSet \cup InstallStageSet
    /\ ~outstanding
    /\ outstanding' = TRUE
    /\ issued' = Append(issued, stage_cmd(pc))
    /\ IF pc \in InstallStageSet THEN install_request_exec(stage_cmd(pc))
       ELSE request_exec(stage_cmd(pc)) /\ UNCHANGED sleep
    /\ UNCHANGED <<cliVars, concVars, test, target, pc, responses, bootVars, log, result, lifeVars, attempt>>

\* Common to every stage: the response of the outstanding command is read.
Read(stage) ==
    /\ pc = stage
    /\ outstanding
    /\ outstanding' = FALSE
    /\ responses' = Append(responses, [stage |-> stage, exit_status |-> exit_code,
                                       output |-> channel_read])
    /\ remaining' = channel_read_remaining
    /\ UNCHANGED <<cliVars, concVars, test, target, issued, output, invoked, next_expected_cmd,
                   exit_code, invoked_fail, add_failure, sleep, lifeVars, attempt>>

\* A failed stage left in place, to be run again.
Fail_and_retry(kind, what) ==
    UNCHANGED <<pc, result>>

\* The first failure aborts the run and is propagated to the caller.
Fail(kind, what) ==
    /\ pc' = "failed"
    /\ result' = Error(kind, what)

\* Stage 1/2: the helper's environment report.  A failed or unusable report is
\* not fatal by itself: the helper is then looked up with `which sshfs`
\* (throws_when_sshfs_does_not_exist fails that lookup and no other command;
\* throws_when_uid_is_not_an_integer answers the report with nothing and expects
\* the run to get as far as `id -u`).
EnvDone ==
    /\ Read("env")
    /\ LET env == parse_env(channel_read)
       IN  IF exit_code = SSH_OK /\ {"LD_LIBRARY_PATH", "SNAP"} \subseteq DOMAIN env
           THEN /\ sshfs_exec' = snap_sshfs_exec(env)
                /\ pc' = "version"
           ELSE /\ pc' = "which"
                /\ UNCHANGED sshfs_exec
    /\ UNCHANGED <<fuse_version, uid, gid, absolute, anchor, log, result>>

\* Stage 1: the fallback lookup; an absent helper is the helper-missing error.
WhichDone ==
    /\ Read("which")
    /\ IF exit_code # SSH_OK
       THEN /\ Fail("sshfs_missing", "which")
            /\ UNCHANGED sshfs_exec
       ELSE /\ sshfs_exec' = TrimEnd(channel_read)
            /\ pc' = "version"
            /\ UNCHANGED result
    /\ UNCHANGED <<fuse_version, uid, gid, absolute, anchor, log>>

\* Stage 3: the FUSE version.  A malformed version is fatal; a version that
\* cannot be read at all is logged (a warning, and a debug trace with the
\* offending line) and taken as below 3.  An answer without the token is
\* handled like the blank version, as the one "unparseable" FuseVersion: the
\* tests that answer the version query with nothing
\* (throws_when_uid_is_not_an_integer, throws_when_gid_is_not_an_integer) expect
\* the run to go on to the identity queries.
VersionDone ==
    /\ Read("version")
    /\ LET v == parse_version(channel_read)
       IN  IF exit_code # SSH_OK \/ v.kind = "malformed"
           THEN /\ Fail("runtime_error", "version")
                /\ UNCHANGED <<fuse_version, log>>
           ELSE /\ fuse_version' = v
                /\ pc' = "uid"
                /\ log' = IF v.kind = "version" THEN log
                          ELSE log \o << <<"warning", "sshfs mount",
                                           "Unable to parse the FUSE library version">>,
                                         <<"debug", "sshfs mount",
                                           "Unable to parse the FUSE library version: "
                                               \o v.line>> >>
                /\ UNCHANGED result
    /\ UNCHANGED <<sshfs_exec, uid, gid, absolute, anchor>>

\* Stage 4: `id -u`.
UidDone ==
    /\ Read("uid")
    /\ IF exit_code # SSH_OK
       THEN Fail("runtime_error", "uid") /\ UNCHANGED uid
       ELSE IF parse_id(channel_read) = -1
       THEN Fail("invalid_argument", "uid") /\ UNCHANGED uid
       ELSE uid' = parse_id(channel_read) /\ pc' = "gid" /\ UNCHANGED result
    /\ UNCHANGED <<sshfs_exec, fuse_version, gid, absolute, anchor, log>>

\* Stage 4: `id -g`.
GidDone ==
    /\ Read("gid")
    /\ IF exit_code # SSH_OK
       THEN Fail("runtime_error", "gid") /\ UNCHANGED gid
       ELSE IF parse_id(channel_read) = -1
       THEN Fail("invalid_argument", "gid") /\ UNCHANGED gid
       ELSE gid' = parse_id(channel_read) /\ pc' = "pwd" /\ UNCHANGED result
    /\ UNCHANGED <<sshfs_exec, fuse_version, uid, absolute, anchor, log>>

\* Stage 5: `pwd`; a relative target is joined to the remote home.
PwdDone ==
    /\ Read("pwd")
    /\ IF exit_code # SSH_OK
       THEN Fail("runtime_error", "pwd") /\ UNCHANGED absolute
       ELSE /\ absolute' = IF is_absolute(target) THEN target
                           ELSE ChopNewline(channel_read) \o "/" \o target
            /\ pc' = "anchor"
            /\ UNCHANGED result
    /\ UNCHANGED <<sshfs_exec, fuse_version, uid, gid, anchor, log>>

\* Stage 5: the deepest existing ancestor of the target.
AnchorDone ==
    /\ Read("anchor")
    /\ IF exit_code # SSH_OK
       THEN Fail("runtime_error", "anchor") /\ UNCHANGED anchor
       ELSE /\ anchor' = parse_anchor(channel_read)
            /\ pc' = "mkdir"
            /\ UNCHANGED result
    /\ UNCHANGED <<sshfs_exec, fuse_version, uid, gid, absolute, log>>

\* Stage 6: the target directory is created.
MkdirDone ==
    /\ Read("mkdir")
    /\ IF exit_code # SSH_OK
       THEN Fail("runtime_error", "mkdir")
       ELSE pc' = "chown" /\ UNCHANGED result
    /\ UNCHANGED <<bootVars, log>>

\* Stage 6: the target directory's ownership is set.
ChownDone ==
    /\ Read("chown")
    /\ IF exit_code # SSH_OK
       THEN Fail("runtime_error", "chown")
       ELSE pc' = "mount" /\ UNCHANGED result
    /\ UNCHANGED <<bootVars, log>>

\* Stage 7 with the helper's exit status ignored.
MountDone_ignores_failure ==
    /\ Read("mount")
    /\ pc' = "mounted"
    /\ result' = Mounted
    /\ UNCHANGED <<bootVars, log>>

\* Stage 7: the mount helper is invoked.
MountDone ==
    /\ Read("mount")
    /\ IF exit_code # SSH_OK
       THEN Fail("runtime_error", "mount")
       ELSE pc' = "mounted" /\ result' = Mounted
    /\ UNCHANGED <<bootVars, log>>

(***************************************************************************)
(* The helper installation flow, mp::utils::install_sshfs_for              *)
(* (specification 6 and 7): two probes and the install command, a failed   *)
(* command ending the flow.  The kind of each failure is the exception the *)
(* install tests expect.                                                   *)
(***************************************************************************)
WhichSnapDone ==
    /\ Read("which_snap")
    /\ IF exit_code # SSH_OK
       THEN Fail("runtime_error", "which_snap")
       ELSE pc' = "snap_dir" /\ UNCHANGED result
    /\ UNCHANGED <<bootVars, log>>

SnapDirDone ==
    /\ Read("snap_dir")
    /\ IF exit_code # SSH_OK
       THEN Fail("runtime_error", "snap_dir")
       ELSE pc' = "snap_install" /\ UNCHANGED result
    /\ UNCHANGED <<bootVars, log>>

\* The install command's exit status is waited for with the installation
\* timeout; none in time is logged, and the flow returns without an error.
SnapInstallDone ==
    /\ Read("snap_install")
    /\ IF ~exit_status_arrives
       THEN /\ log' = Append(log, install_timeout_message(install_name))
            /\ pc' = "returned"
            /\ result' = TimedOut
       ELSE IF exit_code # SSH_OK
       THEN Fail("sshfs_missing", "snap_install") /\ UNCHANGED log
       ELSE pc' = "returned" /\ result' = Installed /\ UNCHANGED log
    /\ UNCHANGED bootVars

\* The caller of the free channel goes on with the same remote: once a run has
\* ended it mounts again or runs the installation flow, from a fresh start.
Again ==
    /\ test = "channel"
    /\ pc \in {"released", "failed", "returned"}
    /\ attempt < MaxAttempts
    /\ attempt' = attempt + 1
    /\ pc' \in {"env", "which_snap"}
    /\ outstanding' = FALSE
    /\ issued' = <<>>
    /\ responses' = <<>>
    /\ output' = ""
    /\ remaining' = 0
    /\ invoked' = FALSE
    /\ exit_code' = SSH_OK
    /\ sleep' = FALSE
    /\ sshfs_exec' = ""
    /\ fuse_version' = [kind |-> "unset", line |-> ""]
    /\ uid' = -1
    /\ gid' = -1
    /\ absolute' = ""
    /\ anchor' = ""
    /\ log' = <<>>
    /\ result' = Running
    /\ client_message' = FALSE
    /\ stop_requested' = FALSE
    /\ stopped_ok' = FALSE
    /\ UNCHANGED <<cliVars, concVars, test, target, next_expected_cmd, invoked_fail, add_failure>>

(***************************************************************************)
(* The Lifecycle Controller (specification 4.4): once mounted, the calling *)
(* thread is blocked until the remote signals the end of the session or    *)
(* the owning process asks the mount to stop.                              *)
(***************************************************************************)
\* get_client_msg returning at once, without client_message.wait().
get_client_msg_no_wait == TRUE

\* get_client_msg: client_message.wait() returns once the signal was raised, and
\* the lambda then hands out nullptr, the end of the session.
get_client_msg == client_message

\* The main thread of unblocks_when_sftpserver_exits: client_message.signal().
\* It runs beside the mount thread, so before, during or after the bootstrap.
client_message_signal ==
    /\ test = "unblocks_when_sftpserver_exits"
    /\ ~client_message
    /\ client_message' = TRUE
    /\ UNCHANGED <<cliVars, concVars, test, target, pc, outstanding, issued, responses, mockVars, sleep,
                   bootVars, log, result, stop_requested, stopped_ok, attempt>>

\* Without a test thread behind it: the remote filesystem server exits or the
\* channel closes while the mount is up.
RemoteSessionEnd ==
    /\ test # "unblocks_when_sftpserver_exits"
    /\ pc = "mounted"
    /\ ~client_message
    /\ client_message' = TRUE
    /\ UNCHANGED <<cliVars, concVars, test, target, pc, outstanding, issued, responses, mockVars, sleep,
                   bootVars, log, result, stop_requested, stopped_ok, attempt>>

\* A stop request that cancels the bootstrap in mid-sequence.
StopRequest_aborts ==
    /\ test = "channel"
    /\ pc \in StageSet \cup {"mounted"}
    /\ ~stop_requested
    /\ stop_requested' = TRUE
    /\ pc' = IF pc \in StageSet THEN "failed" ELSE pc
    /\ result' = IF pc \in StageSet THEN Error("runtime_error", pc) ELSE result
    /\ outstanding' = FALSE
    /\ UNCHANGED <<cliVars, concVars, test, target, issued, responses, mockVars, sleep,
                   bootVars, log, client_message, stopped_ok, attempt>>

\* The owning process asks the mount to stop (shutdown).  No test does; the
\* request may come during the bootstrap, which has no cancellation and runs on.
StopRequest ==
    /\ test = "channel"
    /\ pc \in StageSet \cup {"mounted"}
    /\ ~stop_requested
    /\ stop_requested' = TRUE
    /\ UNCHANGED <<cliVars, concVars, test, target, pc, outstanding, issued, responses, mockVars, sleep,
                   bootVars, log, result, client_message, stopped_ok, attempt>>

\* The post-mount wait with no ear for the owner's stop request.
WaitReturn_deaf_to_stop ==
    /\ pc = "mounted"
    /\ get_client_msg
    /\ pc' = "released"
    /\ stopped_ok' = TRUE
    /\ UNCHANGED <<cliVars, concVars, test, target, outstanding, issued, responses, mockVars, sleep,
                   bootVars, log, result, client_message, stop_requested, attempt>>

\* The post-mount wait returns and the caller is released: in the test the
\* statement after make_sshfsmount() runs, stopped_ok = true.
WaitReturn ==
    /\ pc = "mounted"
    /\ get_client_msg \/ stop_requested
    /\ pc' = "released"
    /\ stopped_ok' = TRUE
    /\ UNCHANGED <<cliVars, concVars, test, target, outstanding, issued, responses, mockVars, sleep,
                   bootVars, log, result, client_message, stop_requested, attempt>>

(***************************************************************************)
(* The mocks' bookkeeping (gmock): which expectation handles a call, what  *)
(* the call returns, and when the test has failed.                         *)
(***************************************************************************)
\* A cardinality without an upper bound (WillRepeatedly).
Unbounded == MaxCalls + 1

\* The least number of calls that satisfies the expectation: Times(n) says n;
\* without it, one call when no action is given, else one per WillOnce.
min_calls(e) ==
    IF e.at_most THEN 0
    ELSE IF e.times >= 0 THEN e.times
    ELSE IF e.once = <<>> /\ e.repeatedly = <<>> THEN 1
    ELSE Len(e.once)

\* The number of calls that saturates the expectation.
max_calls(e) ==
    IF e.times >= 0 THEN e.times
    ELSE IF e.repeatedly # <<>> THEN Unbounded
    ELSE IF e.once = <<>> THEN 1
    ELSE Len(e.once)

\* What the n-th call handled by the expectation returns: the n-th WillOnce
\* action, then the WillRepeatedly action, then the ON_CALL action, else the
\* default-constructed value: a null handler, or the status grpc::Status{}.
action_of(e, n) ==
    IF n <= Len(e.once) THEN e.once[n]
    ELSE IF e.repeatedly # <<>> THEN e.repeatedly[1]
    ELSE IF e.by_default # <<>> THEN e.by_default[1]
    ELSE IF e.rpc = "register_handler" THEN nullptr
    ELSE ok

\* The expectations of the running test.
expectations == running_test.expectations

\* The commands of the running test.
sent_commands == running_test.commands

IsSatisfied(i) == call_count[i] >= min_calls(expectations[i])

IsSaturated(i) == call_count[i] >= max_calls(expectations[i])

\* The expectations that precede expectation i in the test's sequence.
PreRequisites(i) ==
    IF expectations[i].sequenced
    THEN {j \in 1..(i - 1) : expectations[j].sequenced}
    ELSE {}

AllPrerequisitesAreSatisfied(i) == \A j \in PreRequisites(i) : IsSatisfied(j)

\* Whether expectation i takes the call: it is set already, not retired, its
\* prerequisites are satisfied and its matcher accepts the arguments.
ShouldHandleArguments(i, request) ==
    /\ expectations[i].before <= command
    /\ expectations[i].rpc = request.rpc
    /\ i \notin retired
    /\ AllPrerequisitesAreSatisfied(i)
    /\ Matches(expectations[i].matcher, request.args)

\* The newest expectation that takes the call, 0 when there is none.
FindMatchingExpectation(request) ==
    LET S == {i \in DOMAIN expectations : ShouldHandleArguments(i, request)}
    IN  IF S = {} THEN 0 ELSE CHOOSE i \in S : \A j \in S : j <= i

\* A call of a method of mock_settings the test has set no expectation for.
\* Whether that mock is strict is not to be seen in the test file
\* (MockSettings::inject() without a template argument): the call goes
\* unnoticed, or it fails the test.
IsUninteresting(request) ==
    /\ request.rpc \in {"register_handler", "unregister_handler"}
    /\ \A i \in DOMAIN expectations : expectations[i].rpc # request.rpc

\* MP_UTILS.exit in a test that has not injected MockUtils: the process ends.
IsRealExit(request) ==
    /\ request.rpc = "exit"
    /\ \A i \in DOMAIN expectations : expectations[i].rpc # "exit"

\* The client can hand back only a handler it was given: the null handler, or
\* one an earlier register_handler returned.
IsKnown(request) ==
    request.rpc = "unregister_handler" /\ request.args # <<nullptr>> =>
        \E i \in DOMAIN calls :
            calls[i].rpc = "register_handler" /\ <<calls[i].status>> = request.args

\* The test is running the command `aliases --format=csv`, with which it
\* looks at the stored aliases.
InListing ==
    /\ pc = "cli" /\ verdict = "running" /\ command <= Len(sent_commands)
    /\ sent_commands[command].argv = aliases_csv

\* The test is running a command of its body, other than that listing.
InCommand ==
    /\ pc = "cli" /\ verdict = "running" /\ command <= Len(sent_commands)
    /\ sent_commands[command].argv # aliases_csv

\* The client calls a mocked method.  A call no expectation takes fails the
\* test (the daemon mock is strict; for mock_settings see IsUninteresting), as
\* does a call to a saturated expectation;
\* a call that is taken retires the expectations sequenced before it.  Failed
\* tests are not run further, and only calls that were taken are recorded.  A
\* call that falls to an expectation of SetUp or of the fixture's constructor
\* leaves no trace: the fixture's defaults take any number of calls.
ClientCalls(request) ==
    /\ InCommand
    /\ Len(calls) < MaxCalls
    /\ LET i == FindMatchingExpectation(request)
       IN  IF i = 0 /\ IsUninteresting(request)
           THEN /\ verdict' \in {verdict, "unexpected_call"}
                /\ UNCHANGED <<calls, call_count, retired>>
           ELSE IF i = 0
           THEN /\ verdict' = IF IsRealExit(request) THEN "exited" ELSE "unexpected_call"
                /\ UNCHANGED <<calls, call_count, retired>>
           ELSE IF i <= running_test.defaults
           THEN UNCHANGED <<calls, call_count, retired, verdict>>
           ELSE IF IsSaturated(i)
           THEN /\ verdict' = "excessive_call"
                /\ UNCHANGED <<calls, call_count, retired>>
           ELSE /\ call_count' = [call_count EXCEPT ![i] = @ + 1]
                /\ retired' = retired \cup PreRequisites(i)
                /\ calls' = Append(calls,
                                   [command |-> command, rpc |-> request.rpc,
                                    args |-> request.args,
                                    status |-> Invoke(action_of(expectations[i],
                                                                call_count[i] + 1),
                                                      request)])
                /\ UNCHANGED verdict
    /\ UNCHANGED <<running_test, command, returned, cout_stream, cerr_stream, aliases_db>>
    /\ UNCHANGED <<sshfsVars, concVars>>

\* The client prints the skip message to the terminal's cout.
ClientPrints ==
    /\ InCommand
    /\ skip_mount_message \notin cout_stream
    /\ cout_stream' = cout_stream \cup {skip_mount_message}
    /\ UNCHANGED <<running_test, calls, call_count, retired, command, returned, cerr_stream,
                   aliases_db, verdict>>
    /\ UNCHANGED <<sshfsVars, concVars>>

\* Whether the output of a command is what the test expects of it.
CoutAsExpected(expected, out) ==
    CASE expected = "skip" -> skip_mount_message \in out
      [] expected = "no_skip" -> skip_mount_message \notin out
      [] expected = "" -> TRUE
      [] expected = "empty" -> out = {}
      [] OTHER -> out = {expected}

\* Whether the test's cerr_stream holds what the test expects of it.
CerrAsExpected(expected, err) == expected = <<>> \/ err = {expected[1]}

\* The messages of the alias commands, as the tests spell them.
already_exists(name) == "Alias '" \o name \o "' already exists\n"
instance_does_not_exist(name) == "Instance '" \o name \o "' does not exist\n"
error_retrieving == "Error retrieving list of instances\n"
error_creating_script(what) == "Error when creating script for alias: " \o what \o "\n"
alias_does_not_exist(name) == "Alias '" \o name \o "' does not exist\n"
warning_removing_script(what, name) ==
    "Warning: '" \o what \o "' when removing alias script for " \o name \o "\n"

\* What the mocks have thrown at the running command.
Thrown == {calls[i].status.what :
              i \in {j \in DOMAIN calls : calls[j].command = command
                                           /\ calls[j].status.code = "runtime_error"}}

\* The messages the running command may print to cerr: those above, about the
\* alias and the instance of its command line and about what was thrown.
ErrorMessages ==
    LET argv == sent_commands[command].argv
    IN  IF ~InCommand \/ argv[1] \notin {"alias", "unalias"} THEN {}
        ELSE IF argv[1] = "alias"
        THEN {already_exists(AliasOf(argv)[1]), instance_does_not_exist(AliasOf(argv)[2]),
              error_retrieving}
             \cup {error_creating_script(what) : what \in Thrown}
        ELSE {alias_does_not_exist(argv[2])}
             \cup {warning_removing_script(what, argv[2]) : what \in Thrown}

\* The client prints a message to cerr; it leaves a trace when cerr is the
\* test's own stream.
ClientPrintsError(message) ==
    /\ InCommand
    /\ sent_commands[command] \in AliasCommands(test)
    /\ sent_commands[command].cerr # <<>>
    /\ message \in ErrorMessages
    /\ message \notin cerr_stream
    /\ cerr_stream' = cerr_stream \cup {message}
    /\ UNCHANGED <<running_test, calls, call_count, retired, command, returned, cout_stream,
                   aliases_db, verdict>>
    /\ UNCHANGED <<sshfsVars, concVars>>

\* The client stores the alias its command line asks for, in the place of
\* any alias of that name.
ClientDefinesAlias ==
    /\ InCommand
    /\ sent_commands[command].argv[1] = "alias"
    /\ LET alias == AliasOf(sent_commands[command].argv)
       IN  /\ alias \notin aliases_db
           /\ aliases_db' = {a \in aliases_db : a[1] # alias[1]} \cup {alias}
    /\ UNCHANGED <<running_test, calls, call_count, retired, command, returned, cout_stream,
                   cerr_stream, verdict>>
    /\ UNCHANGED <<sshfsVars, concVars>>

\* The client removes a stored alias.
ClientRemovesAlias(alias) ==
    /\ InCommand
    /\ sent_commands[command] \in AliasCommands(test)
    /\ alias \in aliases_db
    /\ aliases_db' = aliases_db \ {alias}
    /\ UNCHANGED <<running_test, calls, call_count, retired, command, returned, cout_stream,
                   cerr_stream, verdict>>
    /\ UNCHANGED <<sshfsVars, concVars>>

\* The alias names in the order of the listing.
alias_names_sorted == <<"an_alias", "another_alias", "command">>

\* `aliases --format=csv`: the heading, and a line for each stored alias.
RECURSIVE csv_rows(_, _)
csv_rows(db, k) ==
    IF k > Len(alias_names_sorted) THEN ""
    ELSE LET named == {a \in db : a[1] = alias_names_sorted[k]}
             row == IF named = {} THEN ""
                    ELSE LET a == CHOOSE a \in named : TRUE
                         IN  a[1] \o "," \o a[2] \o "," \o a[3] \o "\n"
         IN  row \o csv_rows(db, k + 1)

csv(db) == "Alias,Instance,Command\n" \o csv_rows(db, 1)

\* The listing runs: it prints the stored aliases as they are, changes nothing
\* and returns; the test compares the output.
ClientListsAliases ==
    /\ InListing
    /\ returned' = Append(returned, [code |-> "Ok", cout |-> {csv(aliases_db)}])
    /\ command' = command + 1
    /\ verdict' = IF ~CoutAsExpected(sent_commands[command].cout, {csv(aliases_db)})
                  THEN "wrong_output"
                  ELSE verdict
    /\ UNCHANGED <<running_test, calls, call_count, retired, cout_stream, cerr_stream,
                   aliases_db>>
    /\ UNCHANGED <<sshfsVars, concVars>>

\* client.run returns; the test compares the return code, and the output where
\* it looks at it, and goes on to its next send_command.
ClientReturns(code) ==
    /\ InCommand
    /\ returned' = Append(returned, [code |-> code, cout |-> cout_stream])
    /\ cout_stream' = {}
    /\ command' = command + 1
    /\ verdict' = IF sent_commands[command].code \notin {"", code} THEN "wrong_return"
                  ELSE IF ~CoutAsExpected(sent_commands[command].cout, cout_stream)
                  THEN "wrong_output"
                  ELSE IF ~CerrAsExpected(sent_commands[command].cerr, cerr_stream)
                  THEN "wrong_output"
                  ELSE verdict
    /\ UNCHANGED <<running_test, calls, call_count, retired, cerr_stream, aliases_db>>
    /\ UNCHANGED <<sshfsVars, concVars>>

\* Client::TearDown (and the destruction of the mocks): every expectation must
\* have been satisfied.
TearDown ==
    /\ pc = "cli"
    /\ verdict = "running"
    /\ command = Len(sent_commands) + 1
    /\ verdict' = IF \A i \in DOMAIN expectations : IsSatisfied(i)
                  THEN "passed" ELSE "unsatisfied"
    /\ UNCHANGED <<running_test, calls, call_count, retired, command, returned, cout_stream,
                   cerr_stream, aliases_db>>
    /\ UNCHANGED <<sshfsVars, concVars>>

\* The client run by the test.
ClientThread ==
    \/ \E request \in Requests(test) : IsKnown(request) /\ ClientCalls(request)
    \/ ClientPrints
    \/ \E message \in ErrorMessages : ClientPrintsError(message)
    \/ ClientDefinesAlias
    \/ \E alias \in aliases_db : ClientRemovesAlias(alias)
    \/ ClientListsAliases
    \/ \E code \in ReturnCodes : ClientReturns(code)

\* A test of the fixture `Client` starts: no call was made, no expectation was
\* called, the first send_command is about to run.  No mount is bootstrapped.
ClientInit ==
    /\ test \in ClientTests
    /\ pc = "cli"
    /\ target = default_target
    /\ outstanding = FALSE
    /\ issued = <<>>
    /\ responses = <<>>
    /\ output = ""
    /\ remaining = 0
    /\ invoked = FALSE
    /\ next_expected_cmd = 1
    /\ exit_code = SSH_OK
    /\ invoked_fail = FALSE
    /\ add_failure = FALSE
    /\ sleep = FALSE
    /\ sshfs_exec = ""
    /\ fuse_version = [kind |-> "unset", line |-> ""]
    /\ uid = -1
    /\ gid = -1
    /\ absolute = ""
    /\ anchor = ""
    /\ log = <<>>
    /\ result = Running
    /\ client_message = FALSE
    /\ stop_requested = FALSE
    /\ stopped_ok = FALSE
    /\ attempt = 1
    /\ running_test = cli_test(test)
    /\ calls = <<>>
    /\ call_count = [i \in DOMAIN running_test.expectations |-> 0]
    /\ retired = {}
    /\ command = 1
    /\ returned = <<>>
    /\ cout_stream = {}
    /\ cerr_stream = {}
    /\ aliases_db = running_test.db
    /\ verdict = "running"
    /\ mount = 0
    /\ suspended = <<>>
    /\ connection = <<>>

ClientNext ==
    \/ ClientThread
    \/ TearDown

\* The runs of the tests of the command-line client.
ClientSpec == ClientInit /\ [][ClientNext]_vars

\* The steps of the thread that runs the mount.
MountThread ==
    \/ Issue
    \/ EnvDone
    \/ WhichDone
    \/ VersionDone
    \/ UidDone
    \/ GidDone
    \/ PwdDone
    \/ AnchorDone
    \/ MkdirDone
    \/ ChownDone
    \/ MountDone
    \/ WaitReturn
    \/ WhichSnapDone
    \/ SnapDirDone
    \/ SnapInstallDone

Next ==
    \/ MountThread
    \/ client_message_signal
    \/ RemoteSessionEnd
    \/ StopRequest
    \/ Again

Spec == Init /\ [][Next]_vars

\* Threads are scheduled fairly: the blocked caller runs on once its wait can
\* return, and the test's main thread gets to raise its signal.  The remote's
\* session end and the owner's stop request are under no obligation to happen.
FairSpec == Spec /\ WF_vars(WaitReturn) /\ WF_vars(client_message_signal)

\* The response of the outstanding command of `stage` has arrived and waits to
\* be read.
Responded(stage) == pc = stage /\ outstanding

\* Every issued remote command gets its response and the thread that runs the
\* bootstrap is scheduled: a stage that can issue its command does, and a
\* response that has arrived is read.  Weak fairness of the steps that read the
\* environment report and the version is spelled out with their enabling
\* condition, Responded.  The installation stages, the remote's session end
\* and the owner's stop request are under no obligation.
BootstrapFairSpec ==
    /\ Spec
    /\ WF_vars(Issue)
    /\ []<>~Responded("env") \/ []<><<EnvDone>>_vars
    /\ WF_vars(WhichDone)
    /\ []<>~Responded("version") \/ []<><<VersionDone>>_vars
    /\ WF_vars(UidDone) /\ WF_vars(GidDone) /\ WF_vars(PwdDone)
    /\ WF_vars(AnchorDone) /\ WF_vars(MkdirDone) /\ WF_vars(ChownDone)
    /\ WF_vars(MountDone)

(***************************************************************************)
(* Two mount operations at once (specification 5).  Each mount operation   *)
(* has its own execution context and its own logical channel on the shared *)
(* connection.  The variables of the bootstrap hold the mount operation    *)
(* that is running; the scheduler may suspend it at any step, a command in *)
(* flight included, and run the other.  The mocked channel of the mount's  *)
(* test stands for the remote's answers on its logical channel.  Mount     *)
(* operations 1 and 2 run concurrently; 3 and 4 are the same two mounts    *)
(* run alone beforehand, one after the other, for reference.               *)
(***************************************************************************)
Mounts == 1..4
Concurrent == {1, 2}

\* The same mount operation run alone.
alone(m) == m + 2

\* Both mount operations on one logical channel.
logical_channel_shared(m) == IF m \in Concurrent THEN 1 ELSE m

\* Each mount operation uses its own logical channel.
logical_channel(m) == m

\* The tests whose channel answers every command in one way only.
ConcurrentTests == CheckTests \cup FailTests
                       \cup {"throws_when_sshfs_does_not_exist",
                             "throws_when_uid_is_not_an_integer",
                             "throws_when_gid_is_not_an_integer"}

\* The execution context of the running mount operation.
context ==
    [test |-> test, target |-> target, pc |-> pc, outstanding |-> outstanding,
     issued |-> issued, responses |-> responses, sleep |-> sleep,
     sshfs_exec |-> sshfs_exec, fuse_version |-> fuse_version, uid |-> uid,
     gid |-> gid, absolute |-> absolute, anchor |-> anchor, log |-> log,
     result |-> result, client_message |-> client_message,
     stop_requested |-> stop_requested, stopped_ok |-> stopped_ok,
     attempt |-> attempt]

\* The state of the logical channel of the running mount operation.
channel ==
    [output |-> output, remaining |-> remaining, invoked |-> invoked,
     next_expected_cmd |-> next_expected_cmd, exit_code |-> exit_code,
     invoked_fail |-> invoked_fail, add_failure |-> add_failure]

\* The execution context of a mount operation of test t before its first step.
new_context(t) ==
    [test |-> t, target |-> test_target(t), pc |-> "env", outstanding |-> FALSE,
     issued |-> <<>>, responses |-> <<>>, sleep |-> FALSE,
     sshfs_exec |-> "", fuse_version |-> [kind |-> "unset", line |-> ""],
     uid |-> -1, gid |-> -1, absolute |-> "", anchor |-> "", log |-> <<>>,
     result |-> Running, client_message |-> FALSE, stop_requested |-> FALSE,
     stopped_ok |-> FALSE, attempt |-> 1]

\* A logical channel before its first command; garbage is what the test's
\* uninitialized `remaining` holds.
new_channel(garbage) ==
    [output |-> "", remaining |-> garbage, invoked |-> FALSE,
     next_expected_cmd |-> 1, exit_code |-> SSH_OK, invoked_fail |-> FALSE,
     add_failure |-> FALSE]

\* What the uninitialized `remaining` of test t may hold.
Garbage(t) == IF t \in UninitializedRemaining THEN 0..MaxGarbage ELSE {0}

\* The bootstrap of the context has ended, mounted or failed.
Ended(c) == c.pc \notin StageSet

\* The execution context of mount operation m.
context_of(m) == IF m = mount THEN context ELSE suspended[m]

\* The variables of the bootstrap hold context c on a channel in state ch.
Resume(c, ch) ==
    /\ test' = c.test
    /\ target' = c.target
    /\ pc' = c.pc
    /\ outstanding' = c.outstanding
    /\ issued' = c.issued
    /\ responses' = c.responses
    /\ sleep' = c.sleep
    /\ sshfs_exec' = c.sshfs_exec
    /\ fuse_version' = c.fuse_version
    /\ uid' = c.uid
    /\ gid' = c.gid
    /\ absolute' = c.absolute
    /\ anchor' = c.anchor
    /\ log' = c.log
    /\ result' = c.result
    /\ client_message' = c.client_message
    /\ stop_requested' = c.stop_requested
    /\ stopped_ok' = c.stopped_ok
    /\ attempt' = c.attempt
    /\ output' = ch.output
    /\ remaining' = ch.remaining
    /\ invoked' = ch.invoked
    /\ next_expected_cmd' = ch.next_expected_cmd
    /\ exit_code' = ch.exit_code
    /\ invoked_fail' = ch.invoked_fail
    /\ add_failure' = ch.add_failure

\* Mount operation m may run next: the reference runs are taken to their end
\* one after the other, then the two concurrent mount operations take turns
\* at any step for as long as they have steps to take.
MayRun(m) ==
    /\ m # mount
    /\ ~Ended(suspended[m])
    /\ CASE mount = 3 -> m = 4 /\ Ended(context)
         [] mount = 4 -> m \in Concurrent /\ Ended(context)
         [] OTHER -> m \in Concurrent

\* The scheduler suspends the running mount operation and resumes another: the
\* context is put aside, the logical channel keeps its state on the connection.
Switch ==
    \E m \in Mounts :
        /\ mount \in Mounts
        /\ MayRun(m)
        /\ mount' = m
        /\ suspended' = [suspended EXCEPT ![mount] = context]
        /\ connection' = [connection EXCEPT ![logical_channel(mount)] = channel]
        /\ Resume(suspended[m], connection'[logical_channel(m)])
        /\ UNCHANGED cliVars

\* The steps of the bootstrap of the running mount operation.
Bootstrap ==
    /\ mount \in Mounts
    /\ \/ Issue
       \/ EnvDone
       \/ WhichDone
       \/ VersionDone
       \/ UidDone
       \/ GidDone
       \/ PwdDone
       \/ AnchorDone
       \/ MkdirDone
       \/ ChownDone
       \/ MountDone

\* Two mount operations with different target paths, each also run alone.
ConcurrentInit ==
    \E t1 \in ConcurrentTests, t2 \in ConcurrentTests :
      \E g1 \in Garbage(t1), g2 \in Garbage(t2) :
        /\ test_target(t1) # test_target(t2)
        /\ mount = 3
        /\ suspended = [m \in Mounts |-> new_context(IF m \in {1, 3} THEN t1 ELSE t2)]
        /\ connection = [c \in Mounts |-> new_channel(IF c \in {1, 3} THEN g1 ELSE g2)]
        /\ test = t1
        /\ target = test_target(t1)
        /\ pc = "env"
        /\ outstanding = FALSE
        /\ issued = <<>>
        /\ responses = <<>>
        /\ output = ""
        /\ remaining = g1
        /\ invoked = FALSE
        /\ next_expected_cmd = 1
        /\ exit_code = SSH_OK
        /\ invoked_fail = FALSE
        /\ add_failure = FALSE
        /\ sleep = FALSE
        /\ sshfs_exec = ""
        /\ fuse_version = [kind |-> "unset", line |-> ""]
        /\ uid = -1
        /\ gid = -1
        /\ absolute = ""
        /\ anchor = ""
        /\ log = <<>>
        /\ result = Running
        /\ client_message = FALSE
        /\ stop_requested = FALSE
        /\ stopped_ok = FALSE
        /\ attempt = 1
        /\ running_test = <<>>
        /\ calls = <<>>
        /\ call_count = <<>>
        /\ retired = {}
        /\ command = 1
        /\ returned = <<>>
        /\ cout_stream = {}
        /\ cerr_stream = {}
        /\ aliases_db = {}
        /\ verdict = "running"

ConcurrentNext == Bootstrap \/ Switch

ConcurrentSpec == ConcurrentInit /\ [][ConcurrentNext]_vars

(***************************************************************************)
(* Reading a run: which stage a command string belongs to, and what the    *)
(* remote answered.                                                        *)
(***************************************************************************)
Done == pc \in {"mounted", "released", "failed", "returned"}

IsVersionCmd(c) == StartsWith(c, "sudo ") /\ EndsWith(c, " -V")
IsAnchorCmd(c) == Contains(c, "while [ ! -d ")
IsMkdirCmd(c) == Contains(c, "mkdir -p ")
IsChownCmd(c) == Contains(c, "chown -R ")
IsMountCmd(c) == Contains(c, " -o slave -o transform_symlinks -o allow_other")

\* The place of a command in the stage order of specification 4.2; 0 for a
\* command outside that list (the fallback lookup).
Rank(c) ==
    CASE c = "snap run multipass-sshfs.env" -> 1
      [] IsVersionCmd(c) -> 2
      [] c = "id -u" -> 3
      [] c = "id -g" -> 4
      [] c = "pwd" -> 5
      [] IsAnchorCmd(c) -> 6
      [] IsMkdirCmd(c) -> 7
      [] IsChownCmd(c) -> 8
      [] IsMountCmd(c) -> 9
      [] OTHER -> 0

IsStageCmd(c) == Rank(c) > 0

\* The response read for a stage's command, when there is one.
Answered(stage) == \E i \in 1..Len(responses) : responses[i].stage = stage

AnswerOf(stage) == responses[CHOOSE i \in 1..Len(responses) : responses[i].stage = stage]

ExitedNonzero(stage) == Answered(stage) /\ AnswerOf(stage).exit_status # 0

NoneIssued(IsCmd(_)) == \A i \in 1..Len(issued) : ~IsCmd(issued[i])

\* The text is a non-negative decimal integer: one or more decimal digits, then
\* nothing but the trailing newline or whitespace of the remote's output.
IsIdText(text) ==
    \E n \in 1..Len(text) :
        /\ \A i \in 1..n :
              CharAt(text, i) \in {"0", "1", "2", "3", "4", "5", "6", "7", "8", "9"}
        /\ \A i \in (n + 1)..Len(text) : CharAt(text, i) \in {" ", "\n", "\t", "\r"}

\* The environment report is usable: it holds both variables.
UsableEnv(r) ==
    /\ r.exit_status = 0
    /\ Contains(r.output, "LD_LIBRARY_PATH=")
    /\ Contains(r.output, "SNAP=")

IsInstallCmd(c) == c = snap_install_cmd

\* The remote reported the helper as present: a usable environment report, or a
\* successful fallback lookup.
HelperInstalled ==
    \/ Answered("env") /\ UsableEnv(AnswerOf("env"))
    \/ Answered("which") /\ AnswerOf("which").exit_status = 0

(***************************************************************************)
(* The claims.                                                             *)
(***************************************************************************)
\* C1: the stage commands are issued in the fixed order env, version, id -u,
\* id -g, pwd, anchor, mkdir, chown, mount: the k-th stage command issued is the
\* command of the k-th stage, so none is issued before all earlier ones.  The
\* tests' order check never reports a command out of order, and a mounted run
\* has executed every command its test lists.
C1_StageOrder ==
    /\ LET listed == SelectSeq(issued, IsStageCmd)
       IN  \A k \in 1..Len(listed) : Rank(listed[k]) = k
    /\ ~add_failure
    /\ test \in CheckTests /\ pc = "mounted"
          => next_expected_cmd = Len(commands(test)) + 1

C1_Witness ==
    /\ test = "executes_commands"
    /\ pc = "mounted"
    /\ Len(SelectSeq(issued, IsStageCmd)) = 9
    /\ next_expected_cmd = 4

\* C2: a mount command that was issued holds `-o nonempty` exactly when the
\* version stage did not resolve a major version of 3 or more.  With the
\* fixture's 3.0.0 the command is the one of default_cmds (no `-o nonempty`)
\* and the run ends mounted; with 2.9.0 the command is the one the test lists.
C2_NonemptyIffBelow3 ==
    /\ \A i \in 1..Len(issued) :
          IsMountCmd(issued[i]) =>
             LET v == parse_version(AnswerOf("version").output)
             IN  Contains(issued[i], " -o nonempty")
                    <=> ~(v.kind = "version" /\ v.major >= 3)
    /\ test = "executes_commands" /\ Done =>
          /\ result = Mounted
          /\ AnswerOf("version").output = "FUSE library version: 3.0.0\n"
          /\ issued[Len(issued)] = default_cmds[6][1]
          /\ ~Contains(issued[Len(issued)], "nonempty")
    /\ test = "fuse_version_less_than_3_nonempty" /\ Done =>
          /\ result = Mounted
          /\ AnswerOf("version").output = "FUSE library version: 2.9.0\n"
          /\ issued[Len(issued)] = fuse_version_less_than_3_list[3][1]
          /\ Contains(issued[Len(issued)], " -o nonempty ")

C2_Witness ==
    /\ test = "fuse_version_less_than_3_nonempty"
    /\ pc = "mounted"
    /\ fuse_version.major = 2
    /\ Contains(issued[Len(issued)], " -o nonempty ")

\* C3: when the mkdir command exits nonzero the bootstrap fails with a runtime
\* error naming the mkdir stage and no chown and no mount command is issued;
\* so ends test_failed_invocation("mkdir"), its mkdir command having been run.
C3_MkdirFailure ==
    /\ ExitedNonzero("mkdir") =>
          /\ result = Error("runtime_error", "mkdir")
          /\ NoneIssued(IsChownCmd)
          /\ NoneIssued(IsMountCmd)
    /\ test = "throws_when_unable_to_make_target_dir" /\ Done =>
          /\ ExitedNonzero("mkdir")
          /\ invoked_fail

C3_Witness ==
    /\ test = "throws_when_unable_to_make_target_dir"
    /\ ExitedNonzero("mkdir")
    /\ IsMkdirCmd(issued[Len(issued)])
    /\ result.kind = "runtime_error"

\* C4: when `id -u` answers with something that is not a non-negative decimal
\* integer the bootstrap fails with an invalid-argument error for the uid, and
\* no mkdir command was issued; so ends throws_when_uid_is_not_an_integer, its
\* `id -u` having been run.
C4_UidNotAnInteger ==
    /\ Answered("uid") /\ AnswerOf("uid").exit_status = 0
          /\ ~IsIdText(AnswerOf("uid").output) =>
          /\ result = Error("invalid_argument", "uid")
          /\ NoneIssued(IsMkdirCmd)
    /\ test = "throws_when_uid_is_not_an_integer" /\ Done =>
          /\ result = Error("invalid_argument", "uid")
          /\ invoked_fail
          /\ NoneIssued(IsMkdirCmd)

C4_Witness ==
    /\ test = "channel"
    /\ Answered("uid")
    /\ AnswerOf("uid").output = "ubuntu\n"
    /\ result.kind = "invalid_argument"

\* C5: when `id -u` answered with an integer and `id -g` answers with something
\* that is not a non-negative decimal integer, the bootstrap fails with an
\* invalid-argument error that names the gid, and no chown and no mount command
\* is issued; so ends throws_when_gid_is_not_an_integer.
C5_GidNotAnInteger ==
    /\ Answered("gid") /\ AnswerOf("gid").exit_status = 0
          /\ ~IsIdText(AnswerOf("gid").output) =>
          /\ IsIdText(AnswerOf("uid").output)
          /\ result = Error("invalid_argument", "gid")
          /\ NoneIssued(IsChownCmd)
          /\ NoneIssued(IsMountCmd)
    /\ test = "throws_when_gid_is_not_an_integer" /\ Done =>
          /\ AnswerOf("uid").output = "1000\n"
          /\ AnswerOf("gid").output = "ubuntu\n"
          /\ result = Error("invalid_argument", "gid")
          /\ invoked_fail

C5_Witness ==
    /\ test = "throws_when_gid_is_not_an_integer"
    /\ uid = 1000
    /\ Answered("gid")
    /\ AnswerOf("gid").output = "ubuntu\n"
    /\ result = Error("invalid_argument", "gid")

\* C6: when the environment query yields nothing usable and `which sshfs` exits
\* nonzero, the bootstrap fails with the helper-missing error, which is not the
\* runtime error, and `which sshfs` is the last command issued; so ends
\* throws_when_sshfs_does_not_exist.
C6_HelperMissing ==
    /\ Answered("env") /\ ~UsableEnv(AnswerOf("env")) /\ ExitedNonzero("which") =>
          /\ result.kind = "sshfs_missing"
          /\ result.kind # "runtime_error"
          /\ issued = <<"snap run multipass-sshfs.env", "which sshfs">>
    /\ test = "throws_when_sshfs_does_not_exist" /\ Done =>
          /\ result.kind = "sshfs_missing"
          /\ invoked_fail
          /\ issued = <<"snap run multipass-sshfs.env", "which sshfs">>

C6_Witness ==
    /\ test = "throws_when_sshfs_does_not_exist"
    /\ Answered("env")
    /\ AnswerOf("env").output = ""
    /\ ExitedNonzero("which")
    /\ result.kind = "sshfs_missing"

\* C7: when `id -u`, `id -g` or `pwd` exits nonzero the bootstrap fails with a
\* runtime error for that stage, not with an invalid-argument error, and no
\* mkdir, chown or mount command is issued; so end the three tests that make
\* these commands fail.
C7_IdOrPwdExitFailure ==
    /\ \A stage \in {"uid", "gid", "pwd"} :
          ExitedNonzero(stage) =>
             /\ result = Error("runtime_error", stage)
             /\ NoneIssued(IsMkdirCmd)
             /\ NoneIssued(IsChownCmd)
             /\ NoneIssued(IsMountCmd)
    /\ test = "throws_when_unable_to_obtain_user_id" /\ Done =>
          result = Error("runtime_error", "uid") /\ invoked_fail
    /\ test = "throws_when_unable_to_obtain_group_id" /\ Done =>
          result = Error("runtime_error", "gid") /\ invoked_fail
    /\ test = "throws_when_unable_to_get_current_dir" /\ Done =>
          result = Error("runtime_error", "pwd") /\ invoked_fail

C7_Witness ==
    /\ test = "throws_when_unable_to_get_current_dir"
    /\ ExitedNonzero("pwd")
    /\ uid = 1000 /\ gid = 1000
    /\ result = Error("runtime_error", "pwd")

\* C8: when the chown command exits nonzero, mkdir having succeeded, the
\* bootstrap fails with a runtime error naming chown and the mount command is
\* never issued; so ends test_failed_invocation("chown").
C8_ChownFailure ==
    /\ ExitedNonzero("chown") =>
          /\ AnswerOf("mkdir").exit_status = 0
          /\ result = Error("runtime_error", "chown")
          /\ NoneIssued(IsMountCmd)
    /\ test = "throws_when_unable_to_chown" /\ Done =>
          /\ ExitedNonzero("chown")
          /\ invoked_fail

C8_Witness ==
    /\ test = "throws_when_unable_to_chown"
    /\ ExitedNonzero("chown")
    /\ IsChownCmd(issued[Len(issued)])
    /\ result.kind = "runtime_error"

\* C9: when the version query answers `FUSE library version:` with nothing after
\* the token, the version stage does not fail: exactly the warning and the debug
\* message (with the offending line) that blank_fuse_version_logs_error expects
\* are logged, and the test's run goes on through the anchor resolution and ends
\* mounted.
C9_BlankVersionLogged ==
    /\ Answered("version") /\ AnswerOf("version").exit_status = 0
          /\ AnswerOf("version").output = "FUSE library version:\n" =>
          /\ result.what # "version"
          /\ log = <<blank_version_warning, blank_version_debug>>
    /\ test = "blank_fuse_version_logs_error" /\ Done =>
          /\ log = <<blank_version_warning, blank_version_debug>>
          /\ result = Mounted
          /\ next_expected_cmd = Len(commands(test)) + 1
          /\ \E i \in 1..Len(issued) : IsAnchorCmd(issued[i])

C9_Witness ==
    /\ test = "blank_fuse_version_logs_error"
    /\ Answered("version")
    /\ AnswerOf("version").output = "FUSE library version:\n"
    /\ Len(log) = 2
    /\ pc = "mounted"

\* C10: in the blank-version case the mount command that is issued holds
\* `-o nonempty`.
C10_BlankVersionNonempty ==
    Answered("version") /\ AnswerOf("version").exit_status = 0
        /\ AnswerOf("version").output = "FUSE library version:\n" =>
        \A i \in 1..Len(issued) :
            IsMountCmd(issued[i]) => Contains(issued[i], " -o nonempty ")

C10_Witness ==
    /\ Answered("version")
    /\ AnswerOf("version").output = "FUSE library version:\n"
    /\ pc = "mounted"
    /\ Contains(issued[Len(issued)], " -o nonempty ")

\* C11: when the version query answers the version token with a non-blank value
\* whose major part is not a number, the bootstrap ends with a runtime error and
\* neither mkdir, chown nor the mount command is issued;
\* invalid_fuse_version_throws answers `fu.man.chu` and expects that error.
C11_InvalidVersionThrows ==
    /\ Answered("version") /\ AnswerOf("version").exit_status = 0
          /\ parse_version(AnswerOf("version").output).kind = "malformed" =>
          /\ pc = "failed"
          /\ result = Error("runtime_error", "version")
          /\ NoneIssued(IsMkdirCmd) /\ NoneIssued(IsChownCmd) /\ NoneIssued(IsMountCmd)
    /\ test = "invalid_fuse_version_throws" /\ Done =>
          /\ result.kind = "runtime_error"
          /\ NoneIssued(IsMkdirCmd) /\ NoneIssued(IsChownCmd) /\ NoneIssued(IsMountCmd)

C11_Witness ==
    /\ test = "invalid_fuse_version_throws"
    /\ Answered("version")
    /\ AnswerOf("version").output = "FUSE library version: fu.man.chu\n"
    /\ AnswerOf("version").exit_status = 0
    /\ pc = "failed"
    /\ result.kind = "runtime_error"

\* C12: after a successful mount the caller stays blocked as long as neither the
\* remote's session-end signal nor a stop request has occurred: the wait is left
\* only after one of them, and then without an error.  Once the remote has
\* signalled the end of the session the wait returns in the end and the caller is
\* released without an error; in unblocks_when_sftpserver_exits, whose main
\* thread raises the signal, the mounted caller ends with stopped_ok set.
C12_BlockedUntilSessionEnd ==
    /\ [][pc = "mounted" /\ pc' # "mounted" =>
              /\ client_message \/ stop_requested
              /\ pc' = "released" /\ result' = Mounted /\ stopped_ok']_vars
    /\ (pc = "mounted" /\ client_message)
           ~> (pc = "released" /\ result = Mounted /\ stopped_ok)
    /\ (test = "unblocks_when_sftpserver_exits" /\ pc = "mounted") ~> stopped_ok

C12_Witness ==
    /\ test = "unblocks_when_sftpserver_exits"
    /\ pc = "released"
    /\ client_message /\ ~stop_requested
    /\ stopped_ok
    /\ result = Mounted

\* C13: while the caller is blocked in the post-mount wait, a stop request of the
\* owning process always leads to the wait returning, also in the runs where the
\* remote never signals the end of the session.
C13_StopInterruptsWait ==
    (pc = "mounted" /\ stop_requested) ~> (pc = "released" /\ result = Mounted)

C13_Witness ==
    /\ pc = "released"
    /\ stop_requested /\ ~client_message
    /\ result = Mounted

\* C14: in every run, the first or a later one against the same remote, in which
\* the remote reports the helper as present, the ensure-helper-present stage
\* issues no `sudo snap install multipass-sshfs` and does not fail.  The tests
\* driven by default_cmds are such runs: their environment query is answered
\* with a usable report and the stage ends with that one query.
C14_InstalledHelperNoInstall ==
    /\ HelperInstalled =>
          /\ NoneIssued(IsInstallCmd)
          /\ pc \notin InstallStageSet \cup {"env", "which"}
          /\ result.what \notin {"env", "which"}
          /\ result.kind # "sshfs_missing"
    /\ test \in CheckTests /\ Answered("env") =>
          /\ UsableEnv(AnswerOf("env"))
          /\ HelperInstalled
          /\ NoneIssued(IsInstallCmd)
          /\ NoneIssued(LAMBDA c : c = "which sshfs")

C14_Witness ==
    /\ attempt = MaxAttempts
    /\ HelperInstalled
    /\ NoneIssued(IsInstallCmd)
    /\ pc = "released"

\* C15: in the installation flow an install command that exits nonzero ends the
\* flow with the helper-missing error, and a flow whose three commands all exit
\* with 0 returns without an error; throws_install_sshfs_snap_install_fails and
\* install_sshfs_no_failures_does_not_throw end as they expect.
C15_InstallCommandOutcome ==
    /\ Answered("snap_install") /\ exit_status_arrives
          /\ AnswerOf("snap_install").exit_status # 0 =>
          /\ pc = "failed"
          /\ result = Error("sshfs_missing", "snap_install")
    /\ Answered("snap_install") /\ exit_status_arrives
          /\ AnswerOf("snap_install").exit_status = 0 =>
          /\ \A i \in 1..Len(responses) : responses[i].exit_status = 0
          /\ pc = "returned"
          /\ result = Installed
    /\ test = "throws_install_sshfs_snap_install_fails" /\ Done =>
          /\ result.kind = "sshfs_missing"
          /\ result.kind = expected_exception(test)
          /\ invoked_fail
    /\ test = "install_sshfs_no_failures_does_not_throw" /\ Done =>
          /\ result = Installed
          /\ expected_exception(test) = "none"

C15_Witness ==
    /\ test = "throws_install_sshfs_snap_install_fails"
    /\ ExitedNonzero("snap_install")
    /\ issued = <<"which snap", "[ -e /snap ]", "sudo snap install multipass-sshfs">>
    /\ pc = "failed"
    /\ result.kind = "sshfs_missing"

C17_ProbeFailureNoInstall ==
    /\ ExitedNonzero("which_snap") \/ ExitedNonzero("snap_dir") =>
          /\ pc = "failed"
          /\ result.kind = "runtime_error"
          /\ NoneIssued(IsInstallCmd)
    /\ test \in {"throws_install_sshfs_which_snap_fails",
                 "throws_install_sshfs_no_snap_dir_fails"} /\ Done =>
          /\ result.kind = "runtime_error"
          /\ NoneIssued(IsInstallCmd)
          /\ invoked_fail

C17_Witness ==
    /\ test = "throws_install_sshfs_no_snap_dir_fails"
    /\ ExitedNonzero("snap_dir")
    /\ issued = <<"which snap", "[ -e /snap ]">>
    /\ pc = "failed"
    /\ result.kind = "runtime_error"

\* The number of timeout messages logged.
TimeoutMessages ==
    Cardinality({i \in 1..Len(log) : log[i] = install_timeout_message(install_name)})

\* C18: when the install command was issued and its exit status did not arrive
\* within the timeout, the flow returns without an error and has logged the info
\* message `Timeout while installing 'sshfs' in 'foo'` exactly once; in every
\* other case no timeout message is logged.  install_sshfs_timeout_logs_info
\* ends with exactly that one message.
C18_InstallTimeoutLogged ==
    /\ Answered("snap_install") /\ ~exit_status_arrives =>
          /\ pc = "returned"
          /\ result = TimedOut
          /\ TimeoutMessages = 1
    /\ ~(Answered("snap_install") /\ ~exit_status_arrives) => TimeoutMessages = 0
    /\ test = "install_sshfs_timeout_logs_info" /\ Done =>
          /\ result = TimedOut
          /\ log = <<install_timeout_message("foo")>>

C18_Witness ==
    /\ test = "install_sshfs_timeout_logs_info"
    /\ issued = <<"which snap", "[ -e /snap ]", "sudo snap install multipass-sshfs">>
    /\ Answered("snap_install")
    /\ sleep
    /\ pc = "returned"
    /\ log = <<<<"info", "utils", "Timeout while installing 'sshfs' in 'foo'">>>>

\* C19: no stage is retried.  Within one run no command is issued twice and no
\* stage is answered twice, and once the run has failed (a nonzero exit or an
\* output that does not parse) it issues nothing more: the failed stage's command
\* is the last one issued.
C19_NoStageRetried ==
    /\ [](\A i, j \in 1..Len(issued) : i # j => issued[i] # issued[j])
    /\ [](\A i, j \in 1..Len(responses) : i # j => responses[i].stage # responses[j].stage)
    /\ [](pc = "failed" => /\ ~outstanding
                           /\ Len(responses) = Len(issued)
                           /\ responses[Len(responses)].stage = result.what)
    /\ [][pc = "failed" /\ attempt' = attempt => issued' = issued /\ pc' = "failed"]_vars

C19_Witness ==
    /\ test = "throws_when_unable_to_make_target_dir"
    /\ pc = "failed"
    /\ ExitedNonzero("mkdir")
    /\ Cardinality({i \in 1..Len(issued) : IsMkdirCmd(issued[i])}) = 1
    /\ IsMkdirCmd(issued[Len(issued)])

\* C20: at most one remote command is outstanding at any time: the commands
\* issued are the responses read plus the one outstanding, and a command is
\* issued only when the response of every command before it has been read.
C20_OneOutstandingCommand ==
    /\ [](Len(issued) = Len(responses) + (IF outstanding THEN 1 ELSE 0))
    /\ [][issued' # issued /\ attempt' = attempt =>
              /\ ~outstanding
              /\ Len(responses) = Len(issued)
              /\ Len(issued') = Len(issued) + 1
              /\ outstanding']_vars

C20_Witness ==
    /\ outstanding
    /\ Len(issued) = 9
    /\ Len(responses) = 8
    /\ IsMountCmd(issued[9])

(***************************************************************************)
(* Reading a run of a client test: what the mocks took, in order.          *)
(***************************************************************************)
\* The test was run to its end and nothing failed.
Passed == pc = "cli" /\ verdict = "passed"

\* The calls as (rpc, status code) pairs, in order.
Trace(cs) == [i \in DOMAIN cs |-> <<cs[i].rpc, cs[i].status.code>>]

\* The calls as (rpc, args, status code) triples, in order.
FullTrace(cs) == [i \in DOMAIN cs |-> <<cs[i].rpc, cs[i].args, cs[i].status.code>>]

\* The calls of the daemon's method rpc among cs.
CallsOf(rpc, cs) == SelectSeq(cs, LAMBDA c : c.rpc = rpc)

\* The calls of cs other than those of the daemon's method rpc.
CallsBut(rpc, cs) == SelectSeq(cs, LAMBDA c : c.rpc # rpc)

\* C22: `shell` on the pet instance whose first ssh_info answers NOT_FOUND: the
\* runs the tests accept issue ssh_info, launch, (the mounts feature being on)
\* one mount, and ssh_info again, in exactly this order, and return Ok; ssh_info
\* and launch name the pet instance; and the mocks take no launch before an
\* ssh_info was answered NOT_FOUND.
C22_ShellLaunchesAbsentPetenv ==
    /\ (test = "shell_cmd_automounts_when_launching_petenv" /\ Passed) =>
          /\ Trace(calls) = << <<"ssh_info", "NOT_FOUND">>, <<"launch", "OK">>,
                               <<"mount", "OK">>, <<"ssh_info", "OK">> >>
          /\ returned = <<[code |-> "Ok", cout |-> returned[1].cout]>>
    /\ (test = "shell_cmd_launches_petenv_if_absent" /\ Passed) =>
          /\ FullTrace(CallsBut("mount", calls))
                = << <<"ssh_info", <<petenv_name>>, "NOT_FOUND">>,
                     <<"launch", <<petenv_name>>, "OK">>,
                     <<"ssh_info", <<petenv_name>>, "OK">> >>
          /\ returned[1].code = "Ok"
    /\ test \in {"shell_cmd_automounts_when_launching_petenv",
                 "shell_cmd_launches_petenv_if_absent"} =>
          \A i \in DOMAIN calls :
              calls[i].rpc = "launch" =>
                  \E j \in 1..(i - 1) : /\ calls[j].rpc = "ssh_info"
                                        /\ calls[j].status.code = "NOT_FOUND"

\* The automount test accepted a run with its four calls.
C22_Witness ==
    /\ test = "shell_cmd_automounts_when_launching_petenv"
    /\ Passed
    /\ Len(calls) = 4
    /\ calls[2].rpc = "launch"

\* The tests in which ssh_info reports an instance that cannot be launched.
C23_Tests == {"shell_cmd_fails_on_other_absent_instance",
              "shell_cmd_fails_if_petenv_present_but_deleted",
              "exec_cmd_fails_on_other_absent_instance"}

C24_Tests == {"shell_cmd_starts_instance_if_stopped_or_suspended",
              "shell_cmd_starts_petenv_if_stopped_or_suspended",
              "exec_cmd_starts_instance_if_stopped_or_suspended"}

\* C24: `shell` and `exec` on any instance: when ssh_info answers ABORTED, a
\* start naming exactly that one instance is issued, then ssh_info for the same
\* instance again, in this order, and the command returns Ok: the runs the tests
\* accept are exactly these three calls, and the mocks take no start before an
\* ssh_info was answered ABORTED, nor a second ssh_info before the start.
C24_StoppedInstanceIsStarted ==
    test \in C24_Tests =>
        LET instance == argv_instances(sent_commands[1].argv)
        IN  /\ Len(instance) = 1
            /\ \E n \in 0..3 :
                  FullTrace(calls) = SubSeq(<< <<"ssh_info", instance, "ABORTED">>,
                                               <<"start", instance, "OK">>,
                                               <<"ssh_info", instance, "OK">> >>, 1, n)
            /\ Passed => /\ Len(calls) = 3
                         /\ returned = <<[code |-> "Ok", cout |-> returned[1].cout]>>

\* The shell test of the stopped ordinary instance accepted a run.
C24_Witness ==
    /\ test = "shell_cmd_starts_instance_if_stopped_or_suspended"
    /\ Passed
    /\ FullTrace(calls) = << <<"ssh_info", <<"ordinary">>, "ABORTED">>,
                             <<"start", <<"ordinary">>, "OK">>,
                             <<"ssh_info", <<"ordinary">>, "OK">> >>

\* The tests in which the first start is aborted with a report on instances.
C25_Tests == {"start_cmd_launches_petenv_if_absent",
              "start_cmd_launches_petenv_if_absent_among_others_present",
              "start_cmd_fails_if_petenv_if_absent_amont_others_absent",
              "start_cmd_fails_if_petenv_if_absent_amont_others_deleted",
              "start_cmd_fails_if_petenv_present_but_deleted",
              "start_cmd_fails_if_petenv_present_but_deleted_among_others"}

\* The abort reports the pet instance as non-existent and reports no other
\* instance as non-existent or deleted.
OnlyPetenvAbsent(status) ==
    /\ status.code = "ABORTED"
    /\ status.absent = {petenv_name}
    /\ status.deleted = {}

\* C25: `start` whose first start RPC is aborted: a launch of the pet instance
\* and a second start with the same instance list follow if and only if the
\* abort reports the pet instance as non-existent and no other instance as
\* non-existent or deleted; in every other case no launch is issued and the
\* command returns CommandFail.
C25_StartLaunchesOnlyAbsentPetenv ==
    test \in C25_Tests =>
        LET instances == argv_instances(sent_commands[1].argv)
            others == CallsBut("mount", calls)
        IN  /\ \A i \in DOMAIN calls :
                  calls[i].rpc = "launch" =>
                      /\ calls[i].args = <<petenv_name>>
                      /\ \E j \in 1..(i - 1) : /\ calls[j].rpc = "start"
                                               /\ OnlyPetenvAbsent(calls[j].status)
            /\ Passed =>
                  /\ others # <<>>
                  /\ <<others[1].rpc, others[1].args, others[1].status.code>>
                        = <<"start", instances, "ABORTED">>
                  /\ IF OnlyPetenvAbsent(others[1].status)
                     THEN /\ FullTrace(Tail(others))
                                = << <<"launch", <<petenv_name>>, "OK">>,
                                     <<"start", instances, "OK">> >>
                          /\ returned[1].code = "Ok"
                     ELSE /\ Len(calls) = 1
                          /\ returned[1].code = "CommandFail"

\* The pet instance was launched among others that are present.
C25_Witness ==
    /\ test = "start_cmd_launches_petenv_if_absent_among_others_present"
    /\ Passed
    /\ Trace(calls) = << <<"start", "ABORTED">>, <<"launch", "OK">>, <<"start", "OK">> >>
    /\ calls[3].args = <<"a", "b", petenv_name, "c">>

\* The tests in which the home automount of the launched pet instance fails.
C26_Tests == {"shellCmdFailsWhenUnableToRetrieveAutomountSetting",
              "shell_cmd_fails_when_automounting_in_petenv_fails",
              "startCmdFailsWhenUnableToRetrieveAutomountSetting",
              "start_cmd_fails_when_automounting_in_petenv_fails",
              "launchCmdFailsWhenUnableToRetrieveAutomountSetting",
              "launch_cmd_fails_when_automounting_in_petenv_fails"}

\* The call is a failed step of the home automount: a mount that was answered
\* with an error, or a read of the mounts setting that threw.
AutomountFailed(c) ==
    \/ c.rpc = "mount" /\ c.status.code # "OK"
    \/ c.rpc = "get_mounts" /\ c.status.code = "throw"

\* What a command issues before it launches the pet instance.
FirstProbe(name) ==
    CASE name = "shell" -> << <<"ssh_info", "NOT_FOUND">> >>
      [] name = "start" -> << <<"start", "ABORTED">> >>
      [] name = "launch" -> <<>>

\* C26: the pet instance was just launched by launch, shell or start and the
\* home automount fails (the mount RPC is answered with an error, or reading the
\* mounts setting throws): the command returns CommandFail, no ssh_info or start
\* follows the failure, and when the setting could not be read no mount RPC is
\* issued either.
C26_AutomountFailureFails ==
    test \in C26_Tests =>
        /\ \A i \in DOMAIN calls : AutomountFailed(calls[i]) => i = Len(calls)
        /\ \A i \in DOMAIN calls :
              calls[i].rpc = "get_mounts" => CallsOf("mount", calls) = <<>>
        /\ Passed =>
              LET n == Len(calls)
              IN  /\ n >= 2
                  /\ AutomountFailed(calls[n])
                  /\ Trace(SubSeq(calls, 1, n - 1))
                        = FirstProbe(sent_commands[1].argv[1]) \o << <<"launch", "OK">> >>
                  /\ returned[1].code = "CommandFail"

\* The shell test in which the mounts setting cannot be read accepted a run.
C26_Witness ==
    /\ test = "shellCmdFailsWhenUnableToRetrieveAutomountSetting"
    /\ Passed
    /\ Trace(calls) = << <<"ssh_info", "NOT_FOUND">>, <<"launch", "OK">>,
                         <<"get_mounts", "throw">> >>

\* The tests in which the mounts feature is disabled and the pet instance is
\* launched.
C27_Tests == {"shellCmdSkipsAutomountWhenDisabled",
              "startCmdSkipsAutomountWhenDisabled",
              "launchCmdSkipsAutomountWhenDisabled"}

\* What a command issues once the pet instance is launched and the automount is
\* over.
Retry(name) ==
    CASE name = "shell" -> << <<"ssh_info", "OK">> >>
      [] name = "start" -> << <<"start", "OK">> >>
      [] name = "launch" -> <<>>

\* C27: the mounts setting is `false` and the pet instance is launched by
\* launch, shell or start: no mount RPC is ever issued, the message `Skipping
\* 'Home' mount due to disabled mounts feature` is printed, and the command
\* proceeds, the ssh_info or start retry included, and returns Ok.
C27_DisabledMountsSkipAutomount ==
    test \in C27_Tests =>
        /\ CallsOf("mount", calls) = <<>>
        /\ Passed =>
              LET name == sent_commands[1].argv[1]
              IN  /\ Trace(CallsOf("get_mounts", calls)) = << <<"get_mounts", "false">> >>
                  /\ Trace(CallsBut("get_mounts", calls))
                        = FirstProbe(name) \o << <<"launch", "OK">> >> \o Retry(name)
                  /\ name # "launch" =>
                        Trace(SubSeq(calls, 1, 3))
                           = FirstProbe(name) \o << <<"launch", "OK">>,
                                                   <<"get_mounts", "false">> >>
                  /\ returned = <<[code |-> "Ok", cout |-> {skip_mount_message}]>>

\* The shell test with the mounts feature disabled accepted a run: the message
\* was printed and the second ssh_info was issued.
C27_Witness ==
    /\ test = "shellCmdSkipsAutomountWhenDisabled"
    /\ Passed
    /\ Trace(calls) = << <<"ssh_info", "NOT_FOUND">>, <<"launch", "OK">>,
                         <<"get_mounts", "false">>, <<"ssh_info", "OK">> >>
    /\ skip_mount_message \in returned[1].cout

\* The launch tests of the home automount.
C28_Tests == {"launch_cmd_automounts_home_in_petenv",
              "launchCmdOnlyWarnsMountForPetEnv",
              "launch_cmd_does_not_automount_in_normal_instances"}

\* The arguments of the home automount: the home as the source and one target,
\* the pet instance at the home automount directory.
HomeAutomount == <<fake_home, petenv_name, home_automount_dir>>

C29_Tests == {"shell_cmd_disabled_petenv",
              "start_cmd_disabled_petenv", "start_cmd_disabled_petenv_all",
              "stop_cmd_disabled_petenv", "stop_cmd_disabled_petenv_with_instance",
              "stop_cmd_disabled_petenv_all",
              "suspend_cmd_disabled_petenv", "suspend_cmd_disabled_petenv_all",
              "restart_cmd_disabled_petenv", "restart_cmd_disabled_petenv_all"}

\* The command line names no instance and does not say `--all`: after the
\* command name it holds only options and the value of `--time`.
Nameless(argv) ==
    \A i \in 2..Len(argv) :
        /\ argv[i] # "--all"
        /\ IsOption(argv[i]) \/ argv[i - 1] = "--time"

\* The RPC of the command: `shell` asks for ssh_info, the others call the RPC
\* of their name.
RpcOf(argv) == IF argv[1] = "shell" THEN "ssh_info" ELSE argv[1]

\* The calls the mocks took while command k of the test ran.
CallsIn(k) == SelectSeq(calls, LAMBDA c : c.command = k)

\* The commands of the running test that name no instance, and the others.
NamelessCommands == {k \in DOMAIN sent_commands : Nameless(sent_commands[k].argv)}
NamingCommands == DOMAIN sent_commands \ NamelessCommands

C30_Tests == {"start_cmd_fails_with_names_and_all",
              "start_cmd_no_args_targets_petenv",
              "start_cmd_considers_configured_petenv",
              "start_cmd_does_not_add_petenv_to_others",
              "start_cmd_does_not_add_petenv_to_all",
              "stop_cmd_fails_with_names_and_all",
              "stop_cmd_no_args_targets_petenv",
              "stop_cmd_considers_configured_petenv",
              "stop_cmd_does_not_add_petenv_to_others",
              "stop_cmd_does_not_add_petenv_to_all",
              "suspend_cmd_fails_with_names_and_all",
              "suspend_cmd_no_args_targets_petenv",
              "suspend_cmd_considers_configured_petenv",
              "suspend_cmd_does_not_add_petenv_to_others",
              "suspend_cmd_does_not_add_petenv_to_all",
              "restart_cmd_fails_with_names_and_all",
              "restart_cmd_no_args_targets_petenv",
              "restart_cmd_considers_configured_petenv",
              "restart_cmd_does_not_add_petenv_to_others",
              "restart_cmd_does_not_add_petenv_to_all"}

\* C30: a run of `start`, `stop`, `suspend` or `restart` that the tests accept
\* sends one request, the RPC of the command, whose instance list follows from
\* the arguments: without names and without `--all` it is exactly the
\* configured pet instance; with names it is exactly those names in the order
\* given, the pet instance not added; with `--all` it is empty; each of these
\* returns Ok.  `--all` together with names returns CommandLineError and sends
\* no request.
C30_InstanceListFollowsArguments ==
    (test \in C30_Tests /\ Passed) =>
        LET argv == sent_commands[1].argv
            names == argv_instances(argv)
            all == \E i \in DOMAIN argv : argv[i] = "--all"
        IN  IF all /\ names # <<>>
            THEN /\ returned[1].code = "CommandLineError"
                 /\ calls = <<>>
            ELSE /\ returned[1].code = "Ok"
                 /\ Len(calls) = 1
                 /\ calls[1].rpc = argv[1]
                 /\ calls[1].args = IF all THEN <<>>
                                    ELSE IF names = <<>>
                                         THEN <<cli_test(test).petenv>>
                                         ELSE names

\* `start foo bar` sent the two names in that order and returned Ok.
C30_Witness ==
    /\ test = "start_cmd_does_not_add_petenv_to_others"
    /\ Passed
    /\ Len(calls) = 1
    /\ calls[1].rpc = "start"
    /\ calls[1].args = <<"foo", "bar">>
    /\ returned[1].code = "Ok"


\* s is a prefix of t.
IsPrefix(s, t) == Len(s) <= Len(t) /\ SubSeq(t, 1, Len(s)) = s

\* The two concurrent mount operations are under way, their reference runs
\* done.
BothUnderWay == mount \in Concurrent

VersionWithoutToken ==
    /\ Answered("version")
    /\ AnswerOf("version").exit_status = 0
    /\ ~Contains(AnswerOf("version").output, version_token)

TypedErrors == {"sshfs_missing", "runtime_error", "invalid_argument"}

\* The stages are left only for one of the two ends, with its result.
EndsOneOfTwoWays ==
    pc \in StageSet /\ pc' \notin StageSet =>
        \/ pc' = "mounted" /\ result' = Mounted
        \/ pc' = "failed" /\ result' \in {Error(k, pc) : k \in TypedErrors}

\* A stop request during the bootstrap changes nothing of the run.
StopLeavesTheRunAlone ==
    pc \in StageSet /\ stop_requested' # stop_requested =>
        UNCHANGED <<pc, outstanding, issued, responses, result>>

\* C35: provided every issued command gets its response, every bootstrap run
\* ends, and in exactly one of two ways: mounted, or failed with a typed error.
\* A run under way always leads to one of the two; it leaves the stages only
\* for one of the two, with the result that goes with it; and it issues at most
\* one command per stage.  There is no cancellation in mid-sequence: a stop
\* request that arrives during the bootstrap changes nothing of the run, which
\* goes on to its end all the same.  The runs of test_command_execution with the
\* commands of executes_commands and works_with_absolute_paths end mounted with
\* every expected command executed.
C35_BootstrapTerminates ==
    /\ (pc \in StageSet) ~> (pc \in {"mounted", "failed"})
    /\ (pc \in StageSet /\ stop_requested) ~> (pc \in {"mounted", "failed"})
    /\ [][EndsOneOfTwoWays]_vars
    /\ [](pc \in StageSet => result = Running /\ Len(issued) <= Len(Stages))
    /\ [][StopLeavesTheRunAlone]_vars
    /\ (test \in {"executes_commands", "works_with_absolute_paths"} /\ pc \in StageSet)
           ~> (pc = "mounted" /\ next_expected_cmd > Len(commands(test)))

C35_Witness ==
    /\ test = "channel"
    /\ stop_requested
    /\ pc = "failed"
    /\ result = Error("invalid_argument", "gid")
    /\ Len(issued) >= 4


\* The anchor commands issued so far.
AnchorCmdsIssued == {issued[i] : i \in {j \in 1..Len(issued) : IsAnchorCmd(issued[j])}}

\* The path the claim puts between the quotes of P="...": the target itself
\* when it starts with a slash, else the `pwd` output without its trailing
\* newline, a slash, and the target.
ClaimedAnchorPath ==
    LET o == AnswerOf("pwd").output
        home == IF Len(o) > 0 /\ CharAt(o, Len(o)) = "\n" THEN SubSeq(o, 1, Len(o) - 1) ELSE o
    IN  IF Len(target) > 0 /\ CharAt(target, 1) = "/" THEN target
        ELSE home \o "/" \o target

\* C36: the anchor command is issued after `pwd` has been answered and holds,
\* between the quotes of P="...", the target when that is absolute and
\* otherwise the `pwd` output without its trailing newline, "/" and the target.
\* The relative `target` with the home /home/ubuntu (executes_commands) and the
\* absolute `/home/ubuntu/target` (works_with_absolute_paths) give the same
\* anchor command, the first command either test expects, and both runs issue it.
C36_AnchorCommandPath ==
    /\ \A c \in AnchorCmdsIssued :
          /\ Answered("pwd")
          /\ c = "sudo /bin/bash -c 'P=\"" \o ClaimedAnchorPath
                     \o "\"; while [ ! -d \"$P/\" ]; do P=${P%/*}; done; echo $P/'"
    /\ test \in {"executes_commands", "works_with_absolute_paths"} =>
          /\ AnchorCmdsIssued \subseteq {anchor_cmd_home_ubuntu_target}
          /\ commands(test)[1][1] = anchor_cmd_home_ubuntu_target
          /\ Done => AnchorCmdsIssued # {} /\ next_expected_cmd > 1

C36_Witness ==
    /\ test = "works_with_absolute_paths"
    /\ target = "/home/ubuntu/target"
    /\ pc = "mounted"
    /\ Answered("pwd")
    /\ AnswerOf("pwd").output = "/home/ubuntu\n"
    /\ AnchorCmdsIssued = {anchor_cmd_home_ubuntu_target}


MkdirCmdsIssued == {issued[i] : i \in {j \in 1..Len(issued) : IsMkdirCmd(issued[j])}}
ChownCmdsIssued == {issued[i] : i \in {j \in 1..Len(issued) : IsChownCmd(issued[j])}}

\* The anchor directory the run resolved, and the target relative to it.
AnchorOfRun == parse_anchor(AnswerOf("anchor").output)
RelativeOfRun == relative_target(ClaimedAnchorPath, AnchorOfRun)

\* The number an identity answer of the run states.
IdOfRun(stage) == NumberValue(TrimEnd(AnswerOf(stage).output))

\* C37: the directory creation and the ownership fix of a run both change to the
\* anchor directory the run resolved and both name the same target relative to
\* it; the `<uid>:<gid>` of the ownership fix are the integers the `id -u` and
\* `id -g` answers of the same run state, in that order.  executes_commands
\* (identity 1000 and 1000, anchor /home/ubuntu/) issues the two commands its
\* list expects and the exec mock finds all three of its commands.
C37_MkdirChownSameAnchorAndTarget ==
    /\ \A c \in MkdirCmdsIssued :
          /\ Answered("anchor") /\ Answered("pwd")
          /\ c = "sudo /bin/bash -c 'cd \"" \o AnchorOfRun \o "\" && mkdir -p \""
                     \o RelativeOfRun \o "\"'"
    /\ \A c \in ChownCmdsIssued :
          /\ Answered("anchor") /\ Answered("pwd") /\ Answered("uid") /\ Answered("gid")
          /\ MkdirCmdsIssued # {}
          /\ c = "sudo /bin/bash -c 'cd \"" \o AnchorOfRun \o "\" && chown -R "
                     \o to_string(IdOfRun("uid")) \o ":" \o to_string(IdOfRun("gid"))
                     \o " " \o RelativeOfRun \o "'"
    /\ test = "executes_commands" =>
          /\ MkdirCmdsIssued \subseteq {executes_commands_list[2][1]}
          /\ ChownCmdsIssued \subseteq {executes_commands_list[3][1]}
          /\ Done => next_expected_cmd > Len(executes_commands_list)

C37_Witness ==
    /\ test = "channel"
    /\ pc = "mounted"
    /\ AnswerOf("uid").output = "0\n"
    /\ AnswerOf("gid").output = "1000\n"
    /\ AnswerOf("anchor").output = "/\n"
    /\ MkdirCmdsIssued = {"sudo /bin/bash -c 'cd \"/\" && mkdir -p \"home/ubuntu/target\"'"}
    /\ ChownCmdsIssued = {"sudo /bin/bash -c 'cd \"/\" && chown -R 0:1000 home/ubuntu/target'"}


\* Once the mount command has failed the run stays as it is.
NothingAfterFailedMount ==
    ExitedNonzero("mount") /\ attempt' = attempt =>
        UNCHANGED <<pc, result, issued, responses, outstanding>>

\* C38: when the final mount command exits with a nonzero status, after the
\* directory creation and the ownership fix were issued and succeeded, the
\* bootstrap has failed with the runtime error of the mount stage; the mount
\* command is the last command of the run: nothing is issued after it, neither
\* to remove the directory created nor to restore its ownership.
C38_FailedMountNoCleanup ==
    /\ [](ExitedNonzero("mount") =>
             /\ pc = "failed"
             /\ result = Error("runtime_error", "mount")
             /\ ~outstanding
             /\ Len(responses) = Len(issued)
             /\ IsMountCmd(issued[Len(issued)])
             /\ Cardinality(MkdirCmdsIssued) = 1 /\ Cardinality(ChownCmdsIssued) = 1
             /\ AnswerOf("mkdir").exit_status = 0 /\ AnswerOf("chown").exit_status = 0
             /\ \A i \in 1..(Len(issued) - 1) : ~IsMountCmd(issued[i]))
    /\ [][NothingAfterFailedMount]_vars

C38_Witness ==
    /\ ExitedNonzero("mount")
    /\ pc = "failed"
    /\ result = Error("runtime_error", "mount")
    /\ Len(issued) = 9
    /\ IsMkdirCmd(issued[7]) /\ IsChownCmd(issued[8]) /\ IsMountCmd(issued[9])


\* The text without its one trailing newline, when it has one.
WithoutNewline(text) ==
    IF Len(text) > 0 /\ CharAt(text, Len(text)) = "\n" THEN SubSeq(text, 1, Len(text) - 1)
    ELSE text

AllDigits(s) ==
    /\ Len(s) > 0
    /\ \A i \in 1..Len(s) : CharAt(s, i) \in {"0", "1", "2", "3", "4", "5", "6", "7", "8", "9"}

\* The texts the integer parser was given in this run: the answers with exit
\* status 0 of the two identity queries.
Parsed == {st \in {"uid", "gid"} : Answered(st) /\ AnswerOf(st).exit_status = 0}

\* The parser rejected the text: the run failed there with invalid-argument.
Rejected(st) == pc = "failed" /\ result = Error("invalid_argument", st)

\* The parser accepted the text and returned n.
Returned(st, n) ==
    /\ ~(pc = "failed" /\ result.what = st)
    /\ IF st = "uid" THEN uid = n ELSE gid = n

RemoteHandlerCmds == {"empty", "blank", "help", "get"}

C40_RegisterTests == {"registersRemoteSettingsHandler_" \o c : c \in RemoteHandlerCmds}
C40_UnregisterTests == {"unregistersRemoteSettingsHandler_" \o c : c \in RemoteHandlerCmds}
C40_VerbosityTests ==
    {"honors_verbosity_in_remote_settings_handler_" \o to_string(n) \o "_" \o c :
         n \in Verbosities, c \in RemoteHandlerCmds}

\* The calls of a method of mock_settings the run made, by their place in calls.
SettingsCalls(rpc) == {i \in DOMAIN calls : calls[i].rpc = rpc}

\* The number of v's of the first argument of the run's command line.
VerbosityOfRun ==
    LET arg == sent_commands[1].argv[1]
    IN  IF StartsWith(arg, "-v") THEN Len(arg) - 1 ELSE 0

TimeoutCommands == {"launch", "start", "restart", "shell"}

C33_ExitTests == {"command_exits_on_timeout_" \o c : c \in TimeoutCommands}
C33_CompleteTests == {"command_completes_without_timeout_" \o c : c \in TimeoutCommands}

\* The N of `--timeout N` on the run's command line.
TimeoutOfRun == NumberValue(sent_commands[1].argv[3])

\* The requests of the run the daemon answered, by their place in calls.
Replies == {i \in DOMAIN calls : calls[i].rpc \in {"launch", "start", "restart", "ssh_info"}}

ExitCalls == {i \in DOMAIN calls : calls[i].rpc = "exit"}

C31_FailingTests == {"alias_does_not_overwrite_alias", "fails_if_cannot_write_script",
                     "alias_refuses_creation_unexisting_instance",
                     "alias_refuses_creation_rpc_error"}

\* The calls of a mocked method that were taken by an expectation of the test.
AliasCalls(rpc) == {i \in DOMAIN calls : calls[i].rpc = rpc}

\* C31: in every run the tests accept, the `alias` command that fails (the
\* name is taken already; the one attempt to write the script throws; the
\* instance is not "primary"; the one instance query returns NOT_FOUND) leaves
\* the stored aliases as populate_db_file stored them, and returns
\* CommandLineError where the test looks at the return code; the `alias` that
\* returns Ok has added the alias of its command line, and nothing else, to
\* what was stored.  The tests of the unknown instance and of the failing query
\* do not look at the return code, and no test requires the query to be made
\* except the one in which it fails.
C31_FailedAliasChangesNothing ==
    pc = "cli" /\ verdict = "passed" =>
        /\ test \in C31_FailingTests => aliases_db = cli_test(test).db
        /\ test \in {"alias_does_not_overwrite_alias", "fails_if_cannot_write_script"} =>
              returned[1].code = "CommandLineError"
        /\ test = "alias_does_not_overwrite_alias" =>
              /\ an_alias \in aliases_db
              /\ AliasOf(sent_commands[1].argv)[1] = an_alias[1]
        /\ test = "fails_if_cannot_write_script" =>
              /\ Cardinality(AliasCalls("create_alias_script")) = 1
              /\ \A i \in AliasCalls("create_alias_script") : calls[i].status = Throw("aaa")
        /\ test = "alias_refuses_creation_unexisting_instance" =>
              /\ AliasOf(sent_commands[1].argv)[2] # "primary"
              /\ \A i \in AliasCalls("info") :
                    calls[i].status = IF calls[i].args = <<"primary">> THEN ok
                                      ELSE invalid_argument
        /\ test = "alias_refuses_creation_rpc_error" =>
              /\ Cardinality(AliasCalls("info")) = 1
              /\ \A i \in AliasCalls("info") : calls[i].status = notfound
        /\ test = "alias_creates_alias" =>
              /\ returned[1].code = "Ok"
              /\ aliases_db = cli_test(test).db \cup {AliasOf(sent_commands[1].argv)}
              /\ AliasOf(sent_commands[1].argv) =
                     <<"another_alias", "primary", "another_command">>
              /\ Cardinality(aliases_db) = Cardinality(cli_test(test).db) + 1

\* An accepted run of alias_does_not_overwrite_alias: the instance query was
\* answered with OK, the command printed its message and returned
\* CommandLineError, and the stored alias is as it was.
C31_Witness ==
    /\ pc = "cli" /\ verdict = "passed"
    /\ test = "alias_does_not_overwrite_alias"
    /\ \E i \in AliasCalls("info") : calls[i].status = ok
    /\ cerr_stream = {already_exists("an_alias")}
    /\ returned[1].code = "CommandLineError"
    /\ aliases_db = {an_alias}

\* C32: in every run the tests accept, `unalias another_alias` returns Ok and
\* leaves stored the aliases populate_db_file stored less that one, also when
\* the one attempt to remove the alias script throws, and then the warning is
\* what the command has printed to cerr; `unalias` of a name that is not
\* stored returns CommandLineError, prints that the alias does not exist, and
\* leaves the stored aliases as they were.
C32_UnaliasRemovesTheNamedAlias ==
    pc = "cli" /\ verdict = "passed" =>
        /\ test \in {"unalias_removes_existing_alias",
                     "unalias_succeeds_even_if_script_cannot_be_removed"} =>
              /\ returned[1].code = "Ok"
              /\ sent_commands[1].argv[2] = another_alias[1]
              /\ aliases_db = cli_test(test).db \ {another_alias}
              /\ Cardinality(aliases_db) = Cardinality(cli_test(test).db) - 1
        /\ test = "unalias_succeeds_even_if_script_cannot_be_removed" =>
              /\ Cardinality(AliasCalls("remove_alias_script")) = 1
              /\ \A i \in AliasCalls("remove_alias_script") : calls[i].status = Throw("bbb")
              /\ cerr_stream = {warning_removing_script("bbb", "another_alias")}
        /\ test = "unalias_does_not_remove_unexisting_alias" =>
              /\ returned[1].code = "CommandLineError"
              /\ \A a \in cli_test(test).db : a[1] # sent_commands[1].argv[2]
              /\ cerr_stream = {alias_does_not_exist(sent_commands[1].argv[2])}
              /\ aliases_db = cli_test(test).db

\* An accepted run of unalias_succeeds_even_if_script_cannot_be_removed: the
\* removal of the script threw, the warning is on cerr, the command returned
\* Ok and the alias is gone.
C32_Witness ==
    /\ pc = "cli" /\ verdict = "passed"
    /\ test = "unalias_succeeds_even_if_script_cannot_be_removed"
    /\ \E i \in AliasCalls("remove_alias_script") : calls[i].status = Throw("bbb")
    /\ cerr_stream = {warning_removing_script("bbb", "another_alias")}
    /\ returned[1].code = "Ok"
    /\ aliases_db = {an_alias}

====
